---------------------------- MODULE Spec2Model ----------------------------
(***************************************************************************)
(* A model of bipkey (github.com/goodieshq/bipkey, package keys): the      *)
(* mnemonic codec, the deterministic key-derivation pipeline and the       *)
(* samplers it feeds.                                                      *)
(*                                                                         *)
(* Conventions.  A Go string is a sequence of character codes (ASCII code  *)
(* points, plus the few non-ASCII white space code points that the Go      *)
(* library treats as separators).  A Go (value, error) pair is a record    *)
(* with an err field, "" meaning nil.                                      *)
(***************************************************************************)
EXTENDS Integers, Sequences, FiniteSets, TLC

VARIABLES
    \* ---- harness of the pure functions (codec, scalar sampler) ----
    fnArg,      \* the input the functions are applied to
    fnVal,      \* the value obtained so far
    fnTrail,    \* the names of the functions applied so far, in order
    \* ---- the derivation pipeline ----
    osEntropy,  \* number of draws made from the OS randomness source
    pc,         \* per run: position in GenerateKey / GenerateKeyFromMnemonic
    call,       \* per run: the arguments of the call
    kdfPos,     \* per run: bytes consumed from the run's hkdf reader
    reads,      \* per run: the reads issued so far (reader, consumer, length)
    work,       \* per run: sampler locals (p, q, d, seed ...)
    key,        \* per run: the returned *Key, or the error
    ctx,        \* per run: whether the context passed to the call is cancelled
    hkdfOut     \* the HKDF output streams as far as they have been observed

fnVars   == <<fnArg, fnVal, fnTrail>>
pipeVars == <<osEntropy, pc, call, kdfPos, reads, work, key, ctx, hkdfOut>>
vars     == <<fnArg, fnVal, fnTrail, osEntropy, pc, call, kdfPos, reads, work, key, ctx,
             hkdfOut>>

---------------------------------------------------------------------------
(* Strings *)

\* strings.ToLower / strings.ToUpper on one character (ASCII letters).
LowerCh(c) == IF c >= 65 /\ c <= 90 THEN c + 32 ELSE c
UpperCh(c) == IF c >= 97 /\ c <= 122 THEN c - 32 ELSE c

ToLower(s) == [i \in 1..Len(s) |-> LowerCh(s[i])]
ToUpper(s) == [i \in 1..Len(s) |-> UpperCh(s[i])]

\* strings.HasPrefix(s, prefix)
HasPrefix(s, prefix) ==
    /\ Len(prefix) <= Len(s)
    /\ SubSeq(s, 1, Len(prefix)) = prefix

\* unicode.IsSpace: the white space of strings.Fields and strings.TrimSpace.
\* 9..13 and 32 are the ASCII white space characters; 133 (U+0085) and
\* 160 (U+00A0) are the Latin-1 ones; the rest are category Z code points.
UnicodeSpace ==
    {9, 10, 11, 12, 13, 32, 133, 160, 5760, 8192, 8193, 8194, 8195, 8196, 8197,
     8198, 8199, 8200, 8201, 8202, 8232, 8233, 8239, 8287, 12288}

\* The positions of s at which a run of non-space characters starts / ends,
\* for the white space characters in space.
TokenStarts(s, space) ==
    {i \in 1..Len(s) : s[i] \notin space /\ (i = 1 \/ s[i - 1] \in space)}
TokenEnds(s, space) ==
    {i \in 1..Len(s) : s[i] \notin space /\ (i = Len(s) \/ s[i + 1] \in space)}

\* The k-th smallest element of the set of numbers S.
Nth(S, k) == CHOOSE i \in S : Cardinality({j \in S : j < i}) = k - 1

\* strings.Fields(s): the maximal runs of non-white-space characters.
Fields(s) ==
    LET starts == TokenStarts(s, UnicodeSpace)
        ends   == TokenEnds(s, UnicodeSpace)
    IN  [k \in 1..Cardinality(starts) |-> SubSeq(s, Nth(starts, k), Nth(ends, k))]

\* strings.TrimSpace(s)
TrimSpace(s) ==
    IF \A i \in 1..Len(s) : s[i] \in UnicodeSpace THEN <<>>
    ELSE SubSeq(s,
                CHOOSE i \in 1..Len(s) :
                    s[i] \notin UnicodeSpace /\ \A j \in 1..(i - 1) : s[j] \in UnicodeSpace,
                CHOOSE i \in 1..Len(s) :
                    s[i] \notin UnicodeSpace /\ \A j \in (i + 1)..Len(s) : s[j] \in UnicodeSpace)

RECURSIVE Join(_, _)
\* strings.Join(elems, sep)
Join(elems, sep) ==
    IF elems = <<>> THEN <<>>
    ELSE IF Len(elems) = 1 THEN elems[1]
    ELSE elems[1] \o sep \o Join(Tail(elems), sep)

---------------------------------------------------------------------------
(* Wordlist and mnemonic codec *)

MNEMONIC_WORD_COUNT == 24

\* bip39.GetWordList(): a sample of the English list, in the list's order.
\* It keeps the features the lookup depends on: words shorter than four
\* letters ("act", "zoo"), a four-letter word ("able"), a short word that is
\* a prefix of longer ones ("act", "action", "actor"), and the BIP-39
\* property that the first four letters identify a word.
bip39Words == <<
    <<97, 98, 97, 110, 100, 111, 110>>,     \* abandon
    <<97, 98, 105, 108, 105, 116, 121>>,    \* ability
    <<97, 98, 108, 101>>,                   \* able
    <<97, 99, 116>>,                        \* act
    <<97, 99, 116, 105, 111, 110>>,         \* action
    <<97, 99, 116, 111, 114>>,              \* actor
    <<122, 111, 111>> >>                    \* zoo

WordSet == {bip39Words[i] : i \in 1..Len(bip39Words)}

\* The loop body's test of GetWordIndex for list entry w.
WordMatches(word, w) ==
    IF Len(word) < 4 THEN word = w ELSE HasPrefix(w, ToLower(word))

\* GetWordIndex(word): index (0-based), full word and error.
GetWordIndex(originalWord) ==
    LET cut  == IF Len(originalWord) > 4 THEN SubSeq(originalWord, 1, 4)
                ELSE originalWord
        word == ToLower(cut)
        hits == {i \in 1..Len(bip39Words) : WordMatches(word, bip39Words[i])}
    IN  IF hits = {}
        THEN [idx |-> -1, word |-> <<>>, err |-> "unknown-word"]
        ELSE LET i == CHOOSE j \in hits : \A h \in hits : j <= h
             IN  [idx |-> i - 1, word |-> bip39Words[i], err |-> ""]

EmptyMnemonic == [i \in 1..MNEMONIC_WORD_COUNT |-> <<>>]

\* Variant of String: the words joined without a separator.
StringNoSeparator(m) == Join(m, <<>>)

\* Mnemonic.String()
String(m) == Join(m, <<32>>)

\* Mnemonic.Normalize(): on the first unknown word the receiver is returned
\* with the error.
\* A Normalize that keeps the words as they were given.
NormalizeKeep(m) == [m |-> m, err |-> ""]

Normalize(m) ==
    LET found == [i \in 1..MNEMONIC_WORD_COUNT |-> GetWordIndex(m[i])]
    IN  IF \E i \in 1..MNEMONIC_WORD_COUNT : found[i].err # ""
        THEN [m |-> m, err |-> "unknown-word"]
        ELSE [m |-> [i \in 1..MNEMONIC_WORD_COUNT |-> found[i].word], err |-> ""]

\* Variant of ShortWord: the word cut to three letters.
ShortWordThree(word) ==
    ToUpper(IF Len(word) > 3 THEN SubSeq(word, 1, 3) ELSE word)

\* One word of Mnemonic.Short().
ShortWord(word) ==
    ToUpper(IF Len(word) > 4 THEN SubSeq(word, 1, 4) ELSE word)

\* Mnemonic.Short()
Short(m) == [i \in 1..MNEMONIC_WORD_COUNT |-> ShortWord(m[i])]

\* Variant of BadWordCount: only too few words are refused.
BadWordCountTooFew(words) == Len(words) < MNEMONIC_WORD_COUNT

\* The length test of ParseMnemonic.
BadWordCount(words) == Len(words) # MNEMONIC_WORD_COUNT

\* ParseMnemonic(mnemonicString).  lookups counts the calls of GetWordIndex
\* the function made before it returned.
ParseMnemonic(mnemonicString) ==
    LET words == Fields(TrimSpace(mnemonicString))
    IN  IF BadWordCount(words)
        THEN [m |-> EmptyMnemonic, err |-> "word-count", lookups |-> 0]
        ELSE LET bad == {i \in 1..Len(words) : GetWordIndex(words[i]).err # ""}
             IN  IF bad # {}
                 THEN [m |-> EmptyMnemonic, err |-> "unknown-word",
                       lookups |-> CHOOSE j \in bad : \A h \in bad : j <= h]
                 ELSE [m |-> [i \in 1..MNEMONIC_WORD_COUNT |->
                                  GetWordIndex(words[i]).word],
                       err |-> "", lookups |-> Len(words)]

---------------------------------------------------------------------------
(* Inputs of the codec: what a caller may hand to the functions above *)

\* How many positions of a mnemonic vary over TokenSamples; the other
\* positions hold wordlist words.
NumVary == 2

\* How far the number of tokens of a raw text departs from 24.
TokenSlack == 2

\* How many codec functions are applied in a row.
MaxCalls == 3

VaryAt == <<1, 24, 12, 6, 18>>

\* Tokens a user may type: full words, 4-letter prefixes in upper case,
\* mixed case, a word with trailing garbage, proper prefixes shorter than
\* four letters, unknown words, the empty string.
TokenSamples == {
    <<97, 98, 97, 110, 100, 111, 110>>,      \* abandon
    <<97, 98, 108, 101>>,                    \* able
    <<97, 99, 116>>,                         \* act
    <<97, 99, 116, 105, 111, 110>>,          \* action
    <<122, 111, 111>>,                       \* zoo
    <<65, 66, 65, 78>>,                      \* ABAN
    <<65, 67, 84>>,                          \* ACT
    <<65, 67, 84, 73>>,                      \* ACTI
    <<90, 111, 111>>,                        \* Zoo
    <<97, 98, 97, 110, 122, 122, 122>>,      \* abanzzz
    <<97, 98>>,                              \* ab
    <<97, 99, 116, 120>>,                    \* actx
    <<120, 121, 122>>,                       \* xyz
    <<>> }

BaseWord(i) == bip39Words[((i - 1) % Len(bip39Words)) + 1]

\* The mnemonic holding the tokens t[1..] at the positions VaryAt[1..] and
\* wordlist words elsewhere.
MnemonicOf(t) ==
    [i \in 1..MNEMONIC_WORD_COUNT |->
        IF \E j \in DOMAIN t : VaryAt[j] = i
        THEN t[CHOOSE j \in DOMAIN t : VaryAt[j] = i]
        ELSE BaseWord(i)]

MnemonicInputs == {MnemonicOf(t) : t \in [1..NumVary -> TokenSamples]}

\* Separators a user may type between two words.
Separators == {<<32>>, <<32, 32>>, <<9>>, <<13, 10>>, <<160>>, <<32, 133>>}

Paddings == {<<>>, <<32>>, <<10, 9>>}

TokenCounts == {0} \cup ((MNEMONIC_WORD_COUNT - TokenSlack)..(MNEMONIC_WORD_COUNT + TokenSlack))

\* The text of n tokens, the first one tok, separated by sep and wrapped in pad.
RawText(n, tok, sep, pad) ==
    pad \o Join([i \in 1..n |-> IF i = 1 THEN tok ELSE BaseWord(i)], sep) \o pad

TextInputs ==
    {[kind |-> "text", n |-> n, tok |-> tok, sep |-> sep,
      s |-> RawText(n, tok, sep, pad)] :
        n \in TokenCounts, tok \in TokenSamples \ {<<>>},
        sep \in Separators, pad \in Paddings}

\* Values of the harness.
ValMnemonic(m) ==
    [kind |-> "mnemonic", m |-> m, s |-> <<>>, err |-> "", lookups |-> 0, tok |-> <<>>]
ValText(s) ==
    [kind |-> "text", m |-> EmptyMnemonic, s |-> s, err |-> "", lookups |-> 0, tok |-> <<>>]
ValError(m, err, lookups) ==
    [kind |-> "error", m |-> m, s |-> <<>>, err |-> err, lookups |-> lookups, tok |-> <<>>]
\* The result r of GetWordIndex(tok): s is the full word, lookups the index.
ValWord(tok, r) ==
    [kind |-> IF r.err = "" THEN "word" ELSE "error",
     m |-> EmptyMnemonic, s |-> r.word, err |-> r.err, lookups |-> r.idx, tok |-> tok]

NoArg == [kind |-> "none"]

RunIds == {1, 2}

NoCall == [op |-> "none"]
NoWork == [state |-> "none"]
NoKey  == [none |-> TRUE]
Pending == [err |-> "pending", key |-> NoKey]

\* The pipeline with the runs in on at their start and the others unused.
PipeInit(on) ==
    /\ osEntropy = 0
    /\ pc = [r \in RunIds |-> IF r \in on THEN "idle" ELSE "off"]
    /\ call = [r \in RunIds |-> NoCall]
    /\ kdfPos = [r \in RunIds |-> 0]
    /\ reads = [r \in RunIds |-> <<>>]
    /\ work = [r \in RunIds |-> NoWork]
    /\ key = [r \in RunIds |-> Pending]
    /\ ctx = [r \in RunIds |-> FALSE]
    /\ hkdfOut = <<>>

PipeIdle == PipeInit({})

InitCodec ==
    /\ \/ \E m \in MnemonicInputs :
            /\ fnArg = [kind |-> "mnemonic", m |-> m]
            /\ fnVal = ValMnemonic(m)
       \/ \E t \in TextInputs :
            /\ fnArg = t
            /\ fnVal = ValText(t.s)
    /\ fnTrail = <<>>
    /\ PipeIdle

CanCall == Len(fnTrail) < MaxCalls

\* m.Normalize()
CallNormalize ==
    /\ CanCall /\ fnVal.kind = "mnemonic"
    /\ LET r == Normalize(fnVal.m)
       IN  fnVal' = IF r.err = "" THEN ValMnemonic(r.m) ELSE ValError(r.m, r.err, 0)
    /\ fnTrail' = Append(fnTrail, "Normalize")
    /\ UNCHANGED <<fnArg, pipeVars>>

\* m.Short()
CallShort ==
    /\ CanCall /\ fnVal.kind = "mnemonic"
    /\ fnVal' = ValMnemonic(Short(fnVal.m))
    /\ fnTrail' = Append(fnTrail, "Short")
    /\ UNCHANGED <<fnArg, pipeVars>>

\* m.String()
CallString ==
    /\ CanCall /\ fnVal.kind = "mnemonic"
    /\ fnVal' = ValText(String(fnVal.m))
    /\ fnTrail' = Append(fnTrail, "String")
    /\ UNCHANGED <<fnArg, pipeVars>>

\* ParseMnemonic(s)
CallParseMnemonic ==
    /\ CanCall /\ fnVal.kind = "text"
    /\ LET r == ParseMnemonic(fnVal.s)
       IN  fnVal' = IF r.err = "" THEN ValMnemonic(r.m)
                    ELSE ValError(r.m, r.err, r.lookups)
    /\ fnTrail' = Append(fnTrail, "ParseMnemonic")
    /\ UNCHANGED <<fnArg, pipeVars>>

\* GetWordIndex(m[i]) for a word of the mnemonic at hand
CallGetWordIndex ==
    /\ CanCall /\ fnVal.kind = "mnemonic"
    /\ \E j \in 1..NumVary :
          /\ fnVal' = ValWord(fnVal.m[VaryAt[j]], GetWordIndex(fnVal.m[VaryAt[j]]))
          /\ fnTrail' = Append(fnTrail, "GetWordIndex")
    /\ UNCHANGED <<fnArg, pipeVars>>

NextCodec ==
    \/ CallNormalize
    \/ CallShort
    \/ CallString
    \/ CallParseMnemonic
    \/ CallGetWordIndex

SpecCodec == InitCodec /\ [][NextCodec]_vars

---------------------------------------------------------------------------
(* Properties of the codec, checked under SpecCodec *)

NormalizesOk(m) == Normalize(m).err = ""

\* C4 (prefix acceptance): for every mnemonic m that normalizes without
\* error, ParseMnemonic(Short(m).String()) succeeds and yields Normalize(m).
C4_PrefixAcceptance ==
    (/\ fnArg.kind = "mnemonic"
     /\ fnTrail = <<"Short", "String", "ParseMnemonic">>
     /\ NormalizesOk(fnArg.m))
        => fnVal = ValMnemonic(Normalize(fnArg.m).m)

\* A mnemonic typed sloppily (not canonical, yet resolvable) went through
\* Short, String and ParseMnemonic and came out canonical.
C4_Witness ==
    /\ fnArg.kind = "mnemonic"
    /\ fnTrail = <<"Short", "String", "ParseMnemonic">>
    /\ NormalizesOk(fnArg.m)
    /\ fnArg.m # Normalize(fnArg.m).m
    /\ fnVal.kind = "mnemonic"
    /\ \A i \in 1..MNEMONIC_WORD_COUNT : fnVal.m[i] \in WordSet

\* C5 (round trip and idempotence): for every mnemonic m that normalizes
\* without error, Normalize(Normalize(m)) = Normalize(m) and
\* ParseMnemonic(Normalize(m).String()) = Normalize(m).
C5_NormalizeRoundTrip ==
    (/\ fnArg.kind = "mnemonic"
     /\ NormalizesOk(fnArg.m)
     /\ \/ fnTrail = <<"Normalize", "Normalize">>
        \/ fnTrail = <<"Normalize", "String", "ParseMnemonic">>)
        => fnVal = ValMnemonic(Normalize(fnArg.m).m)

\* Both halves happened on a mnemonic that was not canonical to begin with:
\* this one is the round trip through the text form.
C5_Witness ==
    /\ fnArg.kind = "mnemonic"
    /\ fnTrail = <<"Normalize", "String", "ParseMnemonic">>
    /\ fnArg.m # Normalize(fnArg.m).m
    /\ fnVal.kind = "mnemonic"

\* The number of tokens of s when only ASCII white space separates.
AsciiSpace == {9, 10, 11, 12, 13, 32}

AsciiTokenCount(s) == Cardinality(TokenStarts(s, AsciiSpace))

ParsedText == fnArg.kind = "text" /\ fnTrail = <<"ParseMnemonic">>

RefusedUnresolved ==
    /\ fnVal.kind = "error"
    /\ fnVal.m = EmptyMnemonic
    /\ fnVal.lookups = 0

\* C6 as stated: the tokens are the runs between ASCII white space; the call
\* succeeds only with 24 of them and otherwise fails, having resolved nothing.
C6_AsciiTokens ==
    ParsedText =>
        LET n == AsciiTokenCount(fnArg.s)
        IN  /\ fnVal.kind = "mnemonic" => n = MNEMONIC_WORD_COUNT
            /\ n # MNEMONIC_WORD_COUNT => RefusedUnresolved

\* C6 as amended: ParseMnemonic splits its input on runs of Unicode white
\* space (unicode.IsSpace: the ASCII white space characters and also U+0085,
\* U+00A0 and the other space code points); it succeeds only when that gives
\* exactly 24 tokens, and for any other count it returns an error and an
\* empty mnemonic without resolving any word.  With 24 tokens the first word
\* is resolved whatever the separators and the padding are.
C6_UnicodeTokens ==
    ParsedText =>
        /\ fnVal.kind = "mnemonic" => fnArg.n = MNEMONIC_WORD_COUNT
        /\ fnArg.n # MNEMONIC_WORD_COUNT => RefusedUnresolved
        /\ (fnArg.n = MNEMONIC_WORD_COUNT /\ GetWordIndex(fnArg.tok).err = "")
              => (fnVal.kind = "mnemonic" /\ fnVal.m[1] = GetWordIndex(fnArg.tok).word)

\* A text of 25 tokens, separated by a non-ASCII space, was refused.
C6_Witness ==
    /\ ParsedText
    /\ fnArg.n = MNEMONIC_WORD_COUNT + 1
    /\ fnArg.sep = <<160>>
    /\ RefusedUnresolved

\* The lookup rule of the specification for a token t.
RuleAccepts(t) ==
    \/ Len(t) >= 4 /\ \E w \in WordSet : HasPrefix(w, ToLower(t))
    \/ Len(t) < 4 /\ ToLower(t) \in WordSet

RuleFirstEntry(t) ==
    LET hits == {i \in 1..Len(bip39Words) :
                    IF Len(t) >= 4 THEN HasPrefix(bip39Words[i], ToLower(t))
                    ELSE bip39Words[i] = ToLower(t)}
    IN  bip39Words[CHOOSE j \in hits : \A h \in hits : j <= h]

---------------------------------------------------------------------------
(* Byte buffers and big integers *)

\* A byte buffer ([]byte) of length len is kept sparsely: nz holds the pairs
\* <<index, byte>> of its non-zero bytes, indices from 1.  A big.Int made by
\* SetBytes is kept as the buffer it was made from (big-endian magnitude).
Buf(len, nz) == [len |-> len, nz |-> nz]

ByteAt(buf, i) ==
    LET hit == {p \in buf.nz : p[1] = i}
    IN  IF hit = {} THEN 0 ELSE (CHOOSE p \in hit : TRUE)[2]

SetByte(buf, i, b) ==
    Buf(buf.len, {p \in buf.nz : p[1] # i} \cup (IF b = 0 THEN {} ELSE {<<i, b>>}))

\* b | 0x80 and b | 0x01 on a byte.
OrHighBit(b) == IF b >= 128 THEN b ELSE b + 128
OrLowBit(b)  == IF b % 2 = 1 THEN b ELSE b + 1

\* (a * b) mod m without leaving 32 bits, for a, b < m <= 2^17.
MulMod(a, b, m) == (((a * (b \div 256)) % m) * 256 + a * (b % 256)) % m

RECURSIVE PowMod(_, _, _)
PowMod(a, e, m) ==
    IF e = 0 THEN 1 % m
    ELSE LET h == PowMod(a, e \div 2, m)
             sq == MulMod(h, h, m)
         IN  IF e % 2 = 0 THEN sq ELSE MulMod(sq, a % m, m)

RECURSIVE SumMod(_, _, _)
SumMod(buf, todo, m) ==
    IF todo = {} THEN 0
    ELSE LET p == CHOOSE x \in todo : TRUE
         IN  (MulMod(p[2] % m, PowMod(256, buf.len - p[1], m), m)
                + SumMod(buf, todo \ {p}, m)) % m

\* new(big.Int).SetBytes(buf) followed by Mod(k, m): the big-endian value of
\* buf reduced modulo m.
BytesMod(buf, m) == SumMod(buf, buf.nz, m)

\* d.FillBytes(make([]byte, size)) for 0 <= d < 2^24.
FillBytes(d, size) ==
    Buf(size, {<<size - j, (d \div (256 ^ j)) % 256>> : j \in 0..2}
                  \ {<<size - j, 0>> : j \in 0..2})

---------------------------------------------------------------------------
(* Supported kinds *)

KeyTypeNone == ""
KeyTypeECC  == "ECC"
KeyTypeRSA  == "RSA"

ECCCurveNone    == 0
ECCCurveP256    == 1
ECCCurveP384    == 2
ECCCurveP521    == 3
ECCCurveEd25519 == 4

RSAKeyNone == 0
RSAKey2048 == 1
RSAKey3072 == 2
RSAKey4096 == 3
RSAKey8192 == 4

getSizeRSA(id) ==
    CASE id = RSAKey2048 -> 2048
      [] id = RSAKey3072 -> 3072
      [] id = RSAKey4096 -> 4096
      [] id = RSAKey8192 -> 8192
      [] OTHER -> 0

\* elliptic.P256().Params() etc.  BitLen is N.BitLen() of the curve.  The
\* group order N itself has hundreds of bits; N here is a prime that stands
\* in for it, and the group is the additive group of integers modulo N with
\* the base point (Gx, Gy).
CurveParams(id) ==
    CASE id = ECCCurveP256 -> [Name |-> "P-256", BitLen |-> 256, N |-> 65521]
      [] id = ECCCurveP384 -> [Name |-> "P-384", BitLen |-> 384, N |-> 98317]
      [] id = ECCCurveP521 -> [Name |-> "P-521", BitLen |-> 521, N |-> 131071]

\* curve.ScalarBaseMult(scalarBytes)
ScalarBaseMult(params, scalarBytes) ==
    LET k == BytesMod(scalarBytes, params.N)
    IN  [X |-> (k * 3) % params.N, Y |-> (k * 5) % params.N]

\* ed25519.SeedSize
Ed25519SeedSize == 32

\* sha256.Size, the block of HKDF-Expand; the hkdf reader yields at most
\* 255 blocks.
Sha256Size == 32
HkdfLimit == 255 * Sha256Size

---------------------------------------------------------------------------
(* Samplers *)

\* A sampler that reduces modulo n instead: its range is 1..n.
generateScalarWideModN(buf, n) == BytesMod(buf, n) + 1

\* generateScalarWide, after the read: k = SetBytes(buf); k.Mod(k, n-1);
\* k.Add(k, one).
generateScalarWide(buf, n) == BytesMod(buf, n - 1) + 1

\* k.ProbablyPrime(PRIMALITY_TESTS).  The test is decided on the low 16 bits
\* of k: exact for numbers below 2^16, a stand-in for the longer ones.
PRIMALITY_TESTS == 256

\* The integer square root of n < 2^16.
Isqrt(n) == CHOOSE r \in 0..255 : r * r <= n /\ (r + 1) * (r + 1) > n

IsPrime(n) ==
    /\ n >= 2
    /\ n % 2 # 0 \/ n = 2
    /\ \A d \in 3..Isqrt(n) : n % d # 0

LowWord(k) ==
    IF k.len = 1 THEN ByteAt(k, 1) ELSE 256 * ByteAt(k, k.len - 1) + ByteAt(k, k.len)

ProbablyPrime(k, rounds) == rounds > 0 /\ IsPrime(LowWord(k))

\* k + v * 256^(len - i) for v < 256, carrying to the left: the bytes equal
\* to 255 left of i become 0 and the first smaller one grows by one.  When
\* there is none the number grows by a leading byte 1, as a big.Int does.
AddAt(k, i, v) ==
    LET b == ByteAt(k, i) + v
    IN  IF b < 256 THEN SetByte(k, i, b)
        ELSE LET stop == {j \in 1..(i - 1) : ByteAt(k, j) < 255}
                 kept == {p \in k.nz : p[1] > i}
                 low  == IF b = 256 THEN {} ELSE {<<i, b - 256>>}
             IN  IF stop = {}
                 THEN Buf(k.len + 1,
                          {<<1, 1>>} \cup {<<p[1] + 1, p[2]>> : p \in kept \cup low})
                 ELSE LET j == CHOOSE x \in stop : \A y \in stop : y <= x
                      IN  Buf(k.len,
                              {p \in k.nz : p[1] < j}
                                  \cup {<<j, ByteAt(k, j) + 1>>} \cup low \cup kept)

\* A search that moves on by 4 after a failed test.
RECURSIVE PrimeSearchByFour(_)
PrimeSearchByFour(k) ==
    IF ProbablyPrime(k, PRIMALITY_TESTS) THEN k ELSE PrimeSearchByFour(AddAt(k, k.len, 4))

RECURSIVE PrimeSearch(_)
\* The loop of derivePrime: k, k+2, k+4, ... until the test passes.
PrimeSearch(k) ==
    IF ProbablyPrime(k, PRIMALITY_TESTS) THEN k ELSE PrimeSearch(AddAt(k, k.len, 2))

\* derivePrime, after the read of byteLen = (bits+7)/8 bytes into buf.
derivePrime(buf, bits) ==
    LET byteLen == (bits + 7) \div 8
        hi      == SetByte(buf, 1, OrHighBit(ByteAt(buf, 1)))
        k       == SetByte(hi, byteLen, OrLowBit(ByteAt(hi, byteLen)))
    IN  PrimeSearch(k)

\* The public exponent of generateRSA.
PublicExponent == 65537

\* An inverse that is taken to exist always.
HasInverseAlways(p, q) == TRUE

\* new(big.Int).ModInverse(e, phi) is nil exactly when e, a prime, divides
\* phi = (p-1)(q-1).
HasInverse(p, q) ==
    /\ BytesMod(p, PublicExponent) # 1
    /\ BytesMod(q, PublicExponent) # 1

\* The rsa.PrivateKey of generateRSA.  N, D and phi are products of numbers
\* of a thousand bits and more; they are kept as the terms that define them.
RsaPrivateKey(p, q) ==
    [type |-> "rsa",
     N |-> <<"mul", p, q>>,
     E |-> PublicExponent,
     D |-> <<"inverse", PublicExponent, <<"phi", p, q>>>>,
     Primes |-> <<p, q>>]

\* The ecdsa.PrivateKey of generateNistECC.
EcdsaPrivateKey(id, d) ==
    LET params      == CurveParams(id)
        scalarSize  == (params.BitLen + 7) \div 8
        scalarBytes == FillBytes(d, scalarSize)
        pub         == ScalarBaseMult(params, scalarBytes)
    IN  [type |-> "ecdsa", Curve |-> params.Name, D |-> d, X |-> pub.X, Y |-> pub.Y]

\* ed25519.NewKeyFromSeed(seed)
Ed25519PrivateKey(seed) == [type |-> "ed25519", seed |-> seed]

\* x509.MarshalPKCS8PrivateKey(privKey): the PrivateKeyInfo of the key.
MarshalPKCS8PrivateKey(privKey) ==
    [version |-> 0, algorithm |-> privKey.type, privateKey |-> privKey]

\* Key.PEM(): the PEM block of the key's DER.
PEM(k) ==
    [Type  |-> IF k.encrypted THEN "ENCRYPTED PRIVATE KEY" ELSE "PRIVATE KEY",
     Bytes |-> k.Der]

\* Key.Fingerprint(): the SHA-256 of the PEM text, kept as the term that
\* defines it.
Fingerprint(k) == <<"sha256", PEM(k)>>

---------------------------------------------------------------------------
(* Seed and HKDF *)

RECURSIVE WeightedSum(_, _, _)
WeightedSum(s, lo, hi) ==
    IF lo > hi THEN 0
    ELSE IF lo = hi THEN s[lo] * ((lo % 97) + 1)
    ELSE LET mid == (lo + hi) \div 2
         IN  WeightedSum(s, lo, mid) + WeightedSum(s, mid + 1, hi)

\* A hash of a string, standing in for the HMAC-SHA512 of PBKDF2.
Digest(s) == WeightedSum(s, 1, Len(s)) % 65521

\* bip39.NewSeed(mnemonic, password) =
\* PBKDF2(mnemonic, "mnemonic" + password, 2048, 64, sha512)
\* A seed that also depends on what the OS randomness source returned last.
NewSeedWithEntropy(mnemonic, password) ==
    <<Digest(mnemonic) + osEntropy,
      Digest(<<109, 110, 101, 109, 111, 110, 105, 99>> \o password)>>

NewSeed(mnemonic, password) ==
    <<Digest(mnemonic), Digest(<<109, 110, 101, 109, 111, 110, 105, 99>> \o password)>>

\* hkdf.New(sha256.New, seed, saltBytes, nil): the reader is identified by
\* its pseudorandom key, a function of the seed and the salt.
\* A reader whose key also depends on the OS randomness source.
HkdfNewWithEntropy(seed, saltBytes) == <<seed, Digest(saltBytes) + osEntropy>>

HkdfNew(seed, saltBytes) == <<seed, Digest(saltBytes)>>

\* The output of the reader with key prk, as far as it has been observed:
\* its first len bytes.
Observed(prk) == IF prk \in DOMAIN hkdfOut THEN hkdfOut[prk] ELSE Buf(0, {})

\* Bytes a block of HKDF output may end in; the bytes before the last one of
\* a block read for the first time are zero.
MaxSample == 1
SampleBytes == {4 * i : i \in 0..MaxSample}

\* st observed up to byte upto, v being the byte at upto when it is new.
Extend(st, upto, v) ==
    IF upto <= st.len THEN st
    ELSE Buf(upto, st.nz \cup (IF v = 0 THEN {} ELSE {<<upto, v>>}))

\* The n bytes of st after the first pos.
Block(st, pos, n) ==
    Buf(n, {<<p[1] - pos, p[2]>> : p \in {q \in st.nz : q[1] > pos /\ q[1] <= pos + n}})

\* io.ReadFull(kdf, buf) with len(buf) = n for the reader of run r, v being
\* the last byte of the block if nobody has read it before.  The reader
\* fails once more than 255 blocks of hash output would be needed.
ReadFull(r, n, v) ==
    LET st  == Observed(work[r].kdf)
        pos == kdfPos[r]
    IN  IF pos + n > HkdfLimit
        THEN [err |-> "hkdf: entropy limit reached", buf |-> Buf(n, {}),
              out |-> st, pos |-> pos]
        ELSE LET st2 == Extend(st, pos + n, v)
             IN  [err |-> "", buf |-> Block(st2, pos, n), out |-> st2, pos |-> pos + n]

\* A read that moves one reader position shared by all runs.
ConsumeShared(r, rd, by) ==
    /\ kdfPos' = [o \in RunIds |-> rd.pos]
    /\ hkdfOut' = IF rd.err = "" THEN (work[r].kdf :> rd.out) @@ hkdfOut ELSE hkdfOut
    /\ reads' = [reads EXCEPT ![r] =
                    Append(@, [reader |-> "hkdf", by |-> by, n |-> rd.buf.len,
                               err |-> rd.err])]

\* The effect of the read rd, issued by function by, on the reader of run r.
Consume(r, rd, by) ==
    /\ kdfPos' = [kdfPos EXCEPT ![r] = rd.pos]
    /\ hkdfOut' = IF rd.err = "" THEN (work[r].kdf :> rd.out) @@ hkdfOut ELSE hkdfOut
    /\ reads' = [reads EXCEPT ![r] =
                    Append(@, [reader |-> "hkdf", by |-> by, n |-> rd.buf.len,
                               err |-> rd.err])]

---------------------------------------------------------------------------
(* Mnemonic generation *)

\* Values the OS randomness source may return as entropy.
NumEntropy == 1
Entropies == 1..NumEntropy

\* bip39.NewMnemonic(entropy): the words the entropy selects, space-joined.
NewMnemonic(entropy) ==
    Join([i \in 1..MNEMONIC_WORD_COUNT |->
             bip39Words[((entropy + i * (entropy + 1)) % Len(bip39Words)) + 1]],
         <<32>>)

\* GenerateMnemonic(ctx), given the entropy bip39.NewEntropy drew.
GenerateMnemonic(entropy) ==
    LET words == Fields(TrimSpace(NewMnemonic(entropy)))
    IN  Normalize([i \in 1..MNEMONIC_WORD_COUNT |-> words[i]])

---------------------------------------------------------------------------
(* The derivation pipeline *)

Salts == {<<>>, <<115>>}

KeyTypes == {KeyTypeNone, KeyTypeECC, KeyTypeRSA}

\* keyId is an int: the ids of the catalog, None (0) and one id beyond it.
KeyIds == 0..5

\* The kinds a caller may ask for.
Kinds ==
    {<<KeyTypeNone, ECCCurveP256>>} \cup ({KeyTypeECC, KeyTypeRSA} \X KeyIds)

\* Mnemonics a user may type at restoration: generated ones in full and in
\* short form, and one with an unknown word.
UserMnemonics ==
    LET gen == {GenerateMnemonic(e).m : e \in Entropies}
    IN  gen \cup {Short(m) : m \in gen}
            \cup {MnemonicOf(<<<<120, 121, 122>>, <<97, 99, 116>>>>)}

NoInt == Buf(0, {})

\* return nil, err
Fail(r, err) ==
    /\ key' = [key EXCEPT ![r] = [err |-> err, key |-> NoKey]]
    /\ pc' = [pc EXCEPT ![r] = "done"]

\* The tail of GenerateKeyFromMnemonic: marshal privKey and return the Key.
Return(r, privKey) ==
    /\ key' = [key EXCEPT ![r] =
                 [err |-> "",
                  key |-> [encrypted  |-> FALSE,
                           keyType    |-> call[r].keyType,
                           keyId      |-> call[r].keyId,
                           salt       |-> call[r].salt,
                           PrivateKey |-> privKey,
                           Der        |-> MarshalPKCS8PrivateKey(privKey),
                           mnemonic   |-> work[r].mnemonic]]]
    /\ pc' = [pc EXCEPT ![r] = "done"]

\* A dispatch whose ECC switch falls through to Ed25519 for an unlisted curve.
DispatchLenient(keyType, keyId) ==
    IF keyType = KeyTypeECC
    THEN IF keyId \in {ECCCurveP256, ECCCurveP384, ECCCurveP521} THEN "generateNistECC"
         ELSE "generateEdECC"
    ELSE IF keyType = KeyTypeRSA
    THEN IF getSizeRSA(keyId) = 0 THEN "unsupported RSA key size" ELSE "derivePrime p"
    ELSE "unsupported key type"

\* Where the switch of GenerateKeyFromMnemonic and the switches of
\* generateECC and generateRSA lead: a sampler, or an error.
Dispatch(keyType, keyId) ==
    IF keyType = KeyTypeECC
    THEN IF keyId \in {ECCCurveP256, ECCCurveP384, ECCCurveP521} THEN "generateNistECC"
         ELSE IF keyId = ECCCurveEd25519 THEN "generateEdECC"
         ELSE "unsupported ECC curve"
    ELSE IF keyType = KeyTypeRSA
    THEN IF getSizeRSA(keyId) = 0 THEN "unsupported RSA key size" ELSE "derivePrime p"
    ELSE "unsupported key type"

Samplers == {"generateNistECC", "generateEdECC", "derivePrime p"}

\* GenerateKeyFromMnemonic up to the first read of a sampler: normalize, seed,
\* hkdf reader, dispatch on the kind.
Enter(r, op, keyType, keyId, salt, mnemonic) ==
    \E norm \in {Normalize(mnemonic)} :
    LET seed == NewSeed(String(norm.m), salt)
        to   == Dispatch(keyType, keyId)
    IN  /\ call' = [call EXCEPT ![r] =
                      [op |-> op, keyType |-> keyType, keyId |-> keyId,
                       salt |-> salt, mnemonic |-> mnemonic]]
        /\ IF norm.err # ""
           THEN /\ key' = [key EXCEPT ![r] =
                             [err |-> "failed to normalize mnemonic", key |-> NoKey]]
                /\ pc' = [pc EXCEPT ![r] = "done"]
                /\ UNCHANGED work
           ELSE /\ work' = [work EXCEPT ![r] =
                              [state |-> "derive", mnemonic |-> norm.m,
                               kdf |-> HkdfNew(seed, salt), p |-> NoInt, q |-> NoInt]]
                /\ IF to \in Samplers
                   THEN /\ pc' = [pc EXCEPT ![r] = to]
                        /\ UNCHANGED key
                   ELSE /\ key' = [key EXCEPT ![r] = [err |-> to, key |-> NoKey]]
                        /\ pc' = [pc EXCEPT ![r] = "done"]

\* Mnemonics of the keys returned so far: what a user wrote down.
WrittenDown == {key[o].key.mnemonic : o \in {x \in RunIds : key[x].err = ""}}

\* The runs are interchangeable: run 2 is the one that starts second.
MayStart(r) == pc[r] = "idle" /\ \A o \in RunIds : o < r => pc[o] # "idle"

\* GenerateKeyFromMnemonic(ctx, keyType, keyId, salt, mnemonic)
GenerateKeyFromMnemonic(r) ==
    /\ MayStart(r)
    /\ \E kind \in Kinds, salt \in Salts, mnemonic \in UserMnemonics \cup WrittenDown :
          Enter(r, "GenerateKeyFromMnemonic", kind[1], kind[2], salt, mnemonic)
    /\ UNCHANGED <<osEntropy, kdfPos, reads, hkdfOut, fnVars, ctx>>

\* GenerateKey(ctx, keyType, keyId, salt): a fresh mnemonic from OS
\* randomness, then GenerateKeyFromMnemonic.
GenerateKey(r) ==
    /\ MayStart(r)
    /\ \E entropy \in Entropies :
          \E mnemonic \in {GenerateMnemonic(entropy)} :
              /\ osEntropy' = entropy
              /\ mnemonic.err = ""
              /\ \E kind \in Kinds, salt \in Salts :
                    Enter(r, "GenerateKey", kind[1], kind[2], salt, mnemonic.m)
    /\ UNCHANGED <<kdfPos, reads, hkdfOut, fnVars, ctx>>

\* A generateNistECC that reads scalarSize bytes, without the 128 extra bits.
GenerateNistECCNarrow(r) ==
    /\ pc[r] = "generateNistECC"
    /\ \E v \in SampleBytes :
          LET params     == CurveParams(call[r].keyId)
              scalarSize == (params.BitLen + 7) \div 8
          IN  \E rd \in {ReadFull(r, scalarSize, v)} :
                /\ Consume(r, rd, "generateScalarWide")
                /\ IF rd.err # ""
                   THEN Fail(r, "failed to generate ECC key")
                   ELSE Return(r, EcdsaPrivateKey(call[r].keyId,
                                                  generateScalarWide(rd.buf, params.N)))
    /\ UNCHANGED <<osEntropy, call, work, fnVars, ctx>>

\* generateNistECC: one read by generateScalarWide, then the key.
GenerateNistECC(r) ==
    /\ pc[r] = "generateNistECC"
    /\ \E v \in SampleBytes :
          LET params         == CurveParams(call[r].keyId)
              scalarSizeWide == (params.BitLen + 128 + 7) \div 8
          IN  \E rd \in {ReadFull(r, scalarSizeWide, v)} :
                /\ Consume(r, rd, "generateScalarWide")
                /\ IF rd.err # ""
                   THEN Fail(r, "failed to generate ECC key")
                   ELSE Return(r, EcdsaPrivateKey(call[r].keyId,
                                                  generateScalarWide(rd.buf, params.N)))
    /\ UNCHANGED <<osEntropy, call, work, fnVars, ctx>>

\* generateEdECC: one read of the seed, then the key.
GenerateEdECC(r) ==
    /\ pc[r] = "generateEdECC"
    /\ \E v \in SampleBytes :
          \E rd \in {ReadFull(r, Ed25519SeedSize, v)} :
              /\ Consume(r, rd, "generateEdECC")
              /\ IF rd.err # ""
                 THEN Fail(r, "failed to generate ECC key")
                 ELSE Return(r, Ed25519PrivateKey(rd.buf))
    /\ UNCHANGED <<osEntropy, call, work, fnVars, ctx>>

\* generateRSA: p, err := derivePrime(r, half)
DerivePrimeP(r) ==
    /\ pc[r] = "derivePrime p"
    /\ \E v \in SampleBytes :
          LET half == getSizeRSA(call[r].keyId) \div 2
          IN  \E rd \in {ReadFull(r, (half + 7) \div 8, v)} :
                /\ Consume(r, rd, "derivePrime")
                /\ IF rd.err # ""
                   THEN Fail(r, "failed to generate ECC key") /\ UNCHANGED work
                   ELSE /\ \E p \in {derivePrime(rd.buf, half)} :
                            work' = [work EXCEPT ![r].p = p, ![r].q = p]  \* q := p
                        /\ pc' = [pc EXCEPT ![r] = "derivePrime q"]
                        /\ UNCHANGED key
    /\ UNCHANGED <<osEntropy, call, fnVars, ctx>>

\* A loop of generateRSA that samples q once more although q differs from p.
DerivePrimeQAgain(r, cap) ==
    /\ pc[r] = "derivePrime q"
    /\ Len(reads[r]) < cap
    /\ \E v \in SampleBytes :
          LET half == getSizeRSA(call[r].keyId) \div 2
          IN  \E rd \in {ReadFull(r, (half + 7) \div 8, v)} :
                /\ Consume(r, rd, "derivePrime")
                /\ IF rd.err # ""
                   THEN Fail(r, "failed to generate ECC key") /\ UNCHANGED work
                   ELSE /\ work' = [work EXCEPT ![r].q = derivePrime(rd.buf, half)]
                        /\ UNCHANGED <<pc, key>>
    /\ UNCHANGED <<osEntropy, call, fnVars, ctx>>

\* generateRSA: one turn of the loop for p.Cmp(q) == 0 { q, err = derivePrime }.
\* A run issues at most cap reads.
DerivePrimeQ(r, cap) ==
    /\ pc[r] = "derivePrime q"
    /\ work[r].p = work[r].q
    /\ Len(reads[r]) < cap
    /\ \E v \in SampleBytes :
          LET half == getSizeRSA(call[r].keyId) \div 2
          IN  \E rd \in {ReadFull(r, (half + 7) \div 8, v)} :
                /\ Consume(r, rd, "derivePrime")
                /\ IF rd.err # ""
                   THEN Fail(r, "failed to generate ECC key") /\ UNCHANGED work
                   ELSE /\ work' = [work EXCEPT ![r].q = derivePrime(rd.buf, half)]
                        /\ UNCHANGED <<pc, key>>
    /\ UNCHANGED <<osEntropy, call, fnVars, ctx>>

\* A generateRSA that samples p and q again when e has no inverse.
AssembleRSAResample(r) ==
    /\ pc[r] = "derivePrime q"
    /\ work[r].p # work[r].q
    /\ IF ~HasInverse(work[r].p, work[r].q)
       THEN /\ pc' = [pc EXCEPT ![r] = "derivePrime p"]
            /\ UNCHANGED key
       ELSE Return(r, RsaPrivateKey(work[r].p, work[r].q))
    /\ UNCHANGED <<osEntropy, call, kdfPos, reads, work, hkdfOut, fnVars, ctx>>

\* generateRSA after the loop: n, phi, e, d, Validate.
AssembleRSA(r) ==
    /\ pc[r] = "derivePrime q"
    /\ work[r].p # work[r].q
    /\ IF ~HasInverse(work[r].p, work[r].q)
       THEN Fail(r, "failed to generate ECC key")
       ELSE Return(r, RsaPrivateKey(work[r].p, work[r].q))
    /\ UNCHANGED <<osEntropy, call, kdfPos, reads, work, hkdfOut, fnVars, ctx>>

FnIdle == fnArg = NoArg /\ fnVal = NoArg /\ fnTrail = <<>>

\* In the specification of two runs a run issues at most MaxReads reads.
MaxReads == 3

Init == FnIdle /\ PipeInit(RunIds)

Next ==
    \E r \in RunIds :
        \/ GenerateKeyFromMnemonic(r)
        \/ GenerateKey(r)
        \/ GenerateNistECC(r)
        \/ GenerateEdECC(r)
        \/ DerivePrimeP(r)
        \/ DerivePrimeQ(r, MaxReads)
        \/ AssembleRSA(r)

Spec == Init /\ [][Next]_vars

\* One derivation, followed to its end: the loop of generateRSA is bounded
\* by the hkdf reader only.
InitSolo == FnIdle /\ PipeInit({1})

NextSolo ==
    \/ GenerateKeyFromMnemonic(1)
    \/ GenerateKey(1)
    \/ GenerateNistECC(1)
    \/ GenerateEdECC(1)
    \/ DerivePrimeP(1)
    \/ DerivePrimeQ(1, HkdfLimit)
    \/ AssembleRSA(1)

SpecSolo == InitSolo /\ [][NextSolo]_vars

---------------------------------------------------------------------------
(* Properties of the pipeline, checked under Spec and SpecSolo *)

Done(r) == pc[r] = "done"
Succeeded(r) == Done(r) /\ key[r].err = ""

SameKindAndSalt(a, b) ==
    /\ call[a].keyType = call[b].keyType
    /\ call[a].keyId = call[b].keyId
    /\ call[a].salt = call[b].salt

\* C1 (determinism): two runs of GenerateKeyFromMnemonic with the same
\* (keyType, keyId, salt, mnemonic) return the same result: the same error,
\* or the same private key and the same unencrypted PKCS#8 DER, whatever the
\* OS randomness source returned and whatever the other run did before.
C1_Determinism ==
    (Done(1) /\ Done(2) /\ SameKindAndSalt(1, 2)
        /\ call[1].mnemonic = call[2].mnemonic)
        => key[1] = key[2]

\* Two finished RSA derivations from the same typed-in mnemonic, kind and
\* salt, after the OS randomness source has been used.
C1_Witness ==
    /\ Succeeded(1) /\ Succeeded(2)
    /\ SameKindAndSalt(1, 2)
    /\ call[1].mnemonic = call[2].mnemonic
    /\ call[1].keyType = KeyTypeRSA
    /\ call[1].op = "GenerateKey"
    /\ call[2].op = "GenerateKeyFromMnemonic"
    /\ osEntropy # 0

\* Run b restores, for the same kind and salt, the key that run a generated.
Restores(a, b) ==
    /\ call[a].op = "GenerateKey" /\ Succeeded(a)
    /\ call[b].op = "GenerateKeyFromMnemonic" /\ Done(b)
    /\ SameKindAndSalt(a, b)
    /\ call[b].mnemonic = key[a].key.mnemonic

\* C2 (generate, then restore): if GenerateKey(keyType, keyId, salt) returned
\* the key k1, GenerateKeyFromMnemonic(keyType, keyId, salt, k1.mnemonic)
\* succeeds and returns a key with the DER and the PEM fingerprint of k1.
C2_GenerateThenRestore ==
    \A a, b \in RunIds :
        Restores(a, b) =>
            /\ key[b].err = ""
            /\ key[b].key.Der = key[a].key.Der
            /\ Fingerprint(key[b].key) = Fingerprint(key[a].key)

\* An Ed25519 key with a salt was generated and then restored.
C2_Witness ==
    /\ Restores(1, 2)
    /\ call[1].keyType = KeyTypeECC /\ call[1].keyId = ECCCurveEd25519
    /\ call[1].salt # <<>>
    /\ key[2].err = ""

IsWordlistMnemonic(m) == \A i \in 1..MNEMONIC_WORD_COUNT : m[i] \in WordSet

\* Run a was given a mnemonic of wordlist words and run b its short form,
\* for the same kind and salt.
FullAndShort(a, b) ==
    /\ Done(a) /\ Done(b)
    /\ SameKindAndSalt(a, b)
    /\ IsWordlistMnemonic(call[a].mnemonic)
    /\ call[b].mnemonic # call[a].mnemonic
    /\ call[b].mnemonic = Short(call[a].mnemonic)

\* C3 (restoration from 4-letter prefixes): GenerateKeyFromMnemonic given the
\* short form of a mnemonic m of wordlist words returns what it returns for m
\* itself: the same private key, the same DER and the same stored mnemonic,
\* which is m.
C3_ShortFormRestores ==
    \A a, b \in RunIds :
        FullAndShort(a, b) =>
            /\ key[a] = key[b]
            /\ key[b].err = "" => key[b].key.mnemonic = call[a].mnemonic

\* A P-384 key was derived from a mnemonic and again from its short form.
C3_Witness ==
    /\ FullAndShort(1, 2)
    /\ Succeeded(1) /\ Succeeded(2)
    /\ call[1].keyType = KeyTypeECC /\ call[1].keyId = ECCCurveP384

\* C8 (two-stage pipeline): every read issued by a sampler
\* (generateScalarWide, generateEdECC, derivePrime) is a read of a ChaCha20
\* DRBG; none is a read of the HKDF reader.
C8_SamplersReadDrbg ==
    \A r \in RunIds : \A i \in 1..Len(reads[r]) : reads[r][i].reader = "drbg"

\* C9 (HKDF exhaustion is unreachable): no read of a derivation asks the
\* HKDF reader for more than is left of its 255 * 32 bytes.
C9_NoExhaustion ==
    \A r \in RunIds : \A i \in 1..Len(reads[r]) :
        reads[r][i].err # "hkdf: entropy limit reached"

---------------------------------------------------------------------------
(* The scalar sampler on its own *)

\* Blocks the byte source may yield: values within ScalarEdge of a multiple
\* of n - 1, in the low bytes of the block, under each of the HighBytes.
ScalarEdge == 2
HighBytes == {0, 1, 255}

NistCurves == {ECCCurveP256, ECCCurveP384, ECCCurveP521}

ScalarSizeWide(id) == (CurveParams(id).BitLen + 128 + 7) \div 8

ScalarBlocks(id) ==
    LET n    == CurveParams(id).N
        lows == {c * (n - 1) + j : c \in 0..2, j \in (0 - ScalarEdge)..ScalarEdge} \cap Nat
    IN  {SetByte(FillBytes(k, ScalarSizeWide(id)), 1, hb) : k \in lows, hb \in HighBytes}

InitScalar ==
    /\ \E id \in NistCurves :
          \E buf \in ScalarBlocks(id) :
              fnArg = [kind |-> "block", id |-> id, buf |-> buf]
    /\ fnVal = NoArg
    /\ fnTrail = <<>>
    /\ PipeIdle

\* generateNistECC(r, id) with a reader r that yields the block fnArg.buf.
CallGenerateNistECC ==
    /\ fnTrail = <<>>
    /\ fnArg.kind = "block"
    /\ \E d \in {generateScalarWide(fnArg.buf, CurveParams(fnArg.id).N)} :
          fnVal' = [kind |-> "key", d |-> d, key |-> EcdsaPrivateKey(fnArg.id, d)]
    /\ fnTrail' = <<"generateNistECC">>
    /\ UNCHANGED <<fnArg, pipeVars>>

NextScalar == CallGenerateNistECC

SpecScalar == InitScalar /\ [][NextScalar]_vars

RECURSIVE BigEndianMod(_, _, _, _)
\* The big-endian value of the bytes lo..hi of buf, modulo m.
BigEndianMod(buf, lo, hi, m) ==
    IF lo = hi THEN ByteAt(buf, lo) % m
    ELSE LET mid == (lo + hi) \div 2
         IN  (MulMod(BigEndianMod(buf, lo, mid, m), PowMod(256, hi - mid, m), m)
                + BigEndianMod(buf, mid + 1, hi, m)) % m

\* C10 (EC scalar range): for a NIST curve of order n and a block k,
\* generateScalarWide returns d = (k mod (n-1)) + 1, so 1 <= d <= n-1, and
\* the public point of the key is d*G.
C10_ScalarRange ==
    (fnTrail = <<"generateNistECC">>) =>
        LET n == CurveParams(fnArg.id).N
            d == fnVal.key.D
        IN  /\ d = BigEndianMod(fnArg.buf, 1, fnArg.buf.len, n - 1) + 1
            /\ 1 <= d /\ d <= n - 1
            /\ fnVal.key.X = (d * 3) % n
            /\ fnVal.key.Y = (d * 5) % n

\* A P-521 block whose value is n - 2 modulo n - 1 gave d = n - 1.
C10_Witness ==
    /\ fnTrail = <<"generateNistECC">>
    /\ fnArg.id = ECCCurveP521
    /\ ByteAt(fnArg.buf, 1) = 0
    /\ fnVal.key.D = CurveParams(fnArg.id).N - 1

---------------------------------------------------------------------------
(* The prime sampler on its own *)

\* Blocks the byte source may yield to derivePrime: a first byte, the same
\* byte in every middle position, and the last two bytes.
FirstBytes == {0, 127, 128, 255}
FillBytesOf == {0, 255}
LastWords == {0, 1, 2, 113, 65519, 65533, 65535}

RsaSizes == {getSizeRSA(id) : id \in {RSAKey2048, RSAKey3072, RSAKey4096, RSAKey8192}}

PrimeBlock(byteLen, first, fill, last) ==
    Buf(byteLen,
        {p \in {<<1, first>>, <<byteLen - 1, last \div 256>>, <<byteLen, last % 256>>} :
            p[2] # 0}
          \cup (IF fill = 0 THEN {} ELSE {<<i, fill>> : i \in 2..(byteLen - 2)}))

InitPrime ==
    /\ \E size \in RsaSizes, first \in FirstBytes, fill \in FillBytesOf, last \in LastWords :
          fnArg = [kind |-> "block", bits |-> size \div 2,
                   buf |-> PrimeBlock(((size \div 2) + 7) \div 8, first, fill, last)]
    /\ fnVal = NoArg
    /\ fnTrail = <<>>
    /\ PipeIdle

\* derivePrime(r, bits) with a reader r that yields the block fnArg.buf.
CallDerivePrime ==
    /\ fnTrail = <<>>
    /\ fnArg.kind = "block"
    /\ fnVal' = [kind |-> "prime", k |-> derivePrime(fnArg.buf, fnArg.bits)]
    /\ fnTrail' = <<"derivePrime">>
    /\ UNCHANGED <<fnArg, pipeVars>>

NextPrime == CallDerivePrime

SpecPrime == InitPrime /\ [][NextPrime]_vars

\* The number of bits of a byte, and k.BitLen() of a big.Int.
ByteBits(b) == CHOOSE n \in 0..8 : b < 2 ^ n /\ (n = 0 \/ b >= 2 ^ (n - 1))

BitLen(k) ==
    LET used == {p[1] : p \in k.nz}
    IN  IF used = {} THEN 0
        ELSE LET f == CHOOSE i \in 1..k.len : i \in used /\ \A j \in 1..(i - 1) : j \notin used
             IN  8 * (k.len - f) + ByteBits(ByteAt(k, f))

\* C11 (RSA prime bit length): every prime returned by derivePrime(bits) has
\* bit length exactly bits, for every block read, also when the +2 search
\* has to move past the initial candidate.
C11_PrimeBitLength ==
    (fnTrail = <<"derivePrime">>) => BitLen(fnVal.k) = fnArg.bits

---------------------------------------------------------------------------
(* generateRSA on chosen streams *)

\* Blocks of n bytes a stream may hold: one that ends in 3, one that ends
\* in 4, the zero block, and one whose candidate is 1 modulo 65537.
BlockKinds == {"three", "four", "zero", "unit"}

BlockBytes(n, kind) ==
    CASE kind = "three" -> {<<n, 3>>}
      [] kind = "four"  -> {<<n, 4>>}
      [] kind = "zero"  -> {}
      [] kind = "unit"  -> {<<n - 3, 128>>, <<n - 2, 3>>, <<n, 3>>}

\* The stream that starts with the blocks kinds[1], kinds[2], ... of n bytes.
StreamOf(n, kinds) ==
    Buf(n * Len(kinds),
        UNION {{<<(i - 1) * n + p[1], p[2]>> : p \in BlockBytes(n, kinds[i])} :
                  i \in DOMAIN kinds})

\* The keys of the readers a derivation may create.
ReaderKeys ==
    {HkdfNew(NewSeed(String(Normalize(m).m), salt), salt) :
        m \in {u \in UserMnemonics : Normalize(u).err = ""}, salt \in Salts}

\* One derivation, every reader yielding the same chosen stream.
InitRsa ==
    /\ FnIdle
    /\ osEntropy = 0
    /\ pc = [r \in RunIds |-> IF r = 1 THEN "idle" ELSE "off"]
    /\ call = [r \in RunIds |-> NoCall]
    /\ kdfPos = [r \in RunIds |-> 0]
    /\ reads = [r \in RunIds |-> <<>>]
    /\ work = [r \in RunIds |-> NoWork]
    /\ key = [r \in RunIds |-> Pending]
    /\ ctx = [r \in RunIds |-> FALSE]
    /\ \E size \in RsaSizes, kinds \in [1..3 -> BlockKinds] :
          hkdfOut = [prk \in ReaderKeys |-> StreamOf(size \div 16, kinds)]

SpecRsa == InitRsa /\ [][NextSolo]_vars

IsOdd(k) == ByteAt(k, k.len) % 2 = 1

\* C12 (RSA structural invariant): every key returned without error by
\* generateRSA has n = p*q, p # q, p and q odd, e = 65537 and
\* d = e^-1 mod (p-1)(q-1), an inverse that exists.
C12_RsaStructure ==
    \A r \in RunIds :
        (Succeeded(r) /\ call[r].keyType = KeyTypeRSA) =>
            LET k == key[r].key.PrivateKey
                p == k.Primes[1]
                q == k.Primes[2]
            IN  /\ p = work[r].p /\ q = work[r].q
                /\ p # q
                /\ IsOdd(p) /\ IsOdd(q)
                /\ k.E = 65537
                /\ k.N = <<"mul", p, q>>
                /\ k.D = <<"inverse", 65537, <<"phi", p, q>>>>
                /\ BytesMod(p, 65537) # 1 /\ BytesMod(q, 65537) # 1

\* An RSA key was returned after q had to be sampled twice.
C12_Witness ==
    /\ Succeeded(1)
    /\ call[1].keyType = KeyTypeRSA
    /\ Len(reads[1]) = 3

\* Run r holds distinct p and q for which e has no inverse modulo phi.
NoInverseAt(r) ==
    /\ work[r].state = "derive"
    /\ work[r].p # work[r].q
    /\ ~HasInverse(work[r].p, work[r].q)

---------------------------------------------------------------------------
(* The catalog of kinds and its parsers *)

\* supportedECCCurves: ID, canonical name and aliases, as character codes.
supportedECCCurves == <<
    [ID |-> ECCCurveP256, Name |-> "P-256",   \* 256, p-256, p256, secp256r1, prime256v1
     Aliases |-> <<<<50, 53, 54>>,
                   <<112, 45, 50, 53, 54>>,
                   <<112, 50, 53, 54>>,
                   <<115, 101, 99, 112, 50, 53, 54, 114, 49>>,
                   <<112, 114, 105, 109, 101, 50, 53, 54, 118, 49>>>>],
    [ID |-> ECCCurveP384, Name |-> "P-384",   \* 384, p-384, p384, secp384r1, prime384v1
     Aliases |-> <<<<51, 56, 52>>,
                   <<112, 45, 51, 56, 52>>,
                   <<112, 51, 56, 52>>,
                   <<115, 101, 99, 112, 51, 56, 52, 114, 49>>,
                   <<112, 114, 105, 109, 101, 51, 56, 52, 118, 49>>>>],
    [ID |-> ECCCurveP521, Name |-> "P-521",   \* 521, p-521, p521, secp521r1, prime521v1
     Aliases |-> <<<<53, 50, 49>>,
                   <<112, 45, 53, 50, 49>>,
                   <<112, 53, 50, 49>>,
                   <<115, 101, 99, 112, 53, 50, 49, 114, 49>>,
                   <<112, 114, 105, 109, 101, 53, 50, 49, 118, 49>>>>],
    [ID |-> ECCCurveEd25519, Name |-> "Ed25519",   \* ed25519
     Aliases |-> <<<<101, 100, 50, 53, 53, 49, 57>>>>]
>>

\* eccAliases, as filled by init: the entries whose alias list holds val in
\* lower case; a later entry replaces an earlier one with the same alias.
eccAliasesAt(val) ==
    {i \in DOMAIN supportedECCCurves :
        \E j \in DOMAIN supportedECCCurves[i].Aliases :
            ToLower(supportedECCCurves[i].Aliases[j]) = val}

\* A ParseECCCurve that compares without lowering the case.
ParseECCCurveAsTyped(val) ==
    LET v == TrimSpace(val)
    IN  IF v = <<>> THEN [id |-> ECCCurveNone, err |-> ""]
        ELSE IF eccAliasesAt(v) # {}
        THEN [id |-> supportedECCCurves[CHOOSE i \in eccAliasesAt(v) :
                        \A h \in eccAliasesAt(v) : h <= i].ID, err |-> ""]
        ELSE [id |-> ECCCurveNone, err |-> "unsupported ECC curve"]

\* ParseECCCurve(val)
ParseECCCurve(val) ==
    LET v == ToLower(TrimSpace(val))
    IN  IF v = <<>> THEN [id |-> ECCCurveNone, err |-> ""]
        ELSE IF eccAliasesAt(v) # {}
        THEN [id |-> supportedECCCurves[CHOOSE i \in eccAliasesAt(v) :
                        \A h \in eccAliasesAt(v) : h <= i].ID, err |-> ""]
        ELSE [id |-> ECCCurveNone, err |-> "unsupported ECC curve"]

\* ParseRSAKeyID(val)
ParseRSAKeyID(val) ==
    LET v == ToLower(TrimSpace(val))
    IN  CASE v = <<>> -> [id |-> RSAKeyNone, err |-> ""]
          [] v = <<50, 48, 52, 56>> -> [id |-> RSAKey2048, err |-> ""]   \* "2048"
          [] v = <<51, 48, 55, 50>> -> [id |-> RSAKey3072, err |-> ""]   \* "3072"
          [] v = <<52, 48, 57, 54>> -> [id |-> RSAKey4096, err |-> ""]   \* "4096"
          [] v = <<56, 49, 57, 50>> -> [id |-> RSAKey8192, err |-> ""]   \* "8192"
          [] OTHER -> [id |-> RSAKeyNone, err |-> "unsupported RSA key size"]

\* Strings handed to the parsers: every alias and size, a few strings that are
\* no alias, each in three casings and with white space around it.
EccAliasStrings ==
    UNION {{supportedECCCurves[i].Aliases[j] : j \in DOMAIN supportedECCCurves[i].Aliases} :
            i \in DOMAIN supportedECCCurves}

RsaSizeStrings == {<<50, 48, 52, 56>>, <<51, 48, 55, 50>>, <<52, 48, 57, 54>>, <<56, 49, 57, 50>>}

\* "1024", "p-255", "p 256", "rsa2048", "25519", "ed448", "p-256x", "0256", "secp256k1", "204 8", "ecc"
UnlistedStrings ==
    {<<>>,
     <<49, 48, 50, 52>>,
     <<112, 45, 50, 53, 53>>,
     <<112, 32, 50, 53, 54>>,
     <<114, 115, 97, 50, 48, 52, 56>>,
     <<50, 53, 53, 49, 57>>,
     <<101, 100, 52, 52, 56>>,
     <<112, 45, 50, 53, 54, 120>>,
     <<48, 50, 53, 54>>,
     <<115, 101, 99, 112, 50, 53, 54, 107, 49>>,
     <<50, 48, 52, 32, 56>>,
     <<101, 99, 99>>}

Capitalize(s) == [i \in 1..Len(s) |-> IF i = 1 THEN UpperCh(s[i]) ELSE s[i]]

KindPaddings == {<<>>, <<32>>, <<9, 10>>, <<160>>}

KindStrings ==
    {l \o c \o r : l \in KindPaddings, r \in KindPaddings,
                   c \in UNION {{s, ToUpper(s), Capitalize(s)} :
                                 s \in EccAliasStrings \cup RsaSizeStrings \cup UnlistedStrings}}

InitCatalog ==
    /\ \E s \in KindStrings : fnArg = [kind |-> "name", s |-> s]
    /\ fnVal = NoArg
    /\ fnTrail = <<>>
    /\ PipeIdle

CallParseECCCurve ==
    /\ fnTrail = <<>>
    /\ fnArg.kind = "name"
    /\ fnVal' = ParseECCCurve(fnArg.s)
    /\ fnTrail' = <<"ParseECCCurve">>
    /\ UNCHANGED <<fnArg, pipeVars>>

CallParseRSAKeyID ==
    /\ fnTrail = <<>>
    /\ fnArg.kind = "name"
    /\ fnVal' = ParseRSAKeyID(fnArg.s)
    /\ fnTrail' = <<"ParseRSAKeyID">>
    /\ UNCHANGED <<fnArg, pipeVars>>

NextCatalog == CallParseECCCurve \/ CallParseRSAKeyID

SpecCatalog == InitCatalog /\ [][NextCatalog]_vars

\* The catalog as documented: the aliases of each elliptic-curve kind and the
\* size of each RSA kind.
ListedEcc(id) ==
    CASE id = ECCCurveP256 -> {<<50, 53, 54>>,
                               <<112, 45, 50, 53, 54>>,
                               <<112, 50, 53, 54>>,
                               <<115, 101, 99, 112, 50, 53, 54, 114, 49>>,
                               <<112, 114, 105, 109, 101, 50, 53, 54, 118, 49>>}
      [] id = ECCCurveP384 -> {<<51, 56, 52>>,
                               <<112, 45, 51, 56, 52>>,
                               <<112, 51, 56, 52>>,
                               <<115, 101, 99, 112, 51, 56, 52, 114, 49>>,
                               <<112, 114, 105, 109, 101, 51, 56, 52, 118, 49>>}
      [] id = ECCCurveP521 -> {<<53, 50, 49>>,
                               <<112, 45, 53, 50, 49>>,
                               <<112, 53, 50, 49>>,
                               <<115, 101, 99, 112, 53, 50, 49, 114, 49>>,
                               <<112, 114, 105, 109, 101, 53, 50, 49, 118, 49>>}
      [] id = ECCCurveEd25519 -> {<<101, 100, 50, 53, 53, 49, 57>>}

ListedRsa(id) ==
    CASE id = RSAKey2048 -> {<<50, 48, 52, 56>>}
      [] id = RSAKey3072 -> {<<51, 48, 55, 50>>}
      [] id = RSAKey4096 -> {<<52, 48, 57, 54>>}
      [] id = RSAKey8192 -> {<<56, 49, 57, 50>>}

EccIds == {ECCCurveP256, ECCCurveP384, ECCCurveP521, ECCCurveEd25519}
RsaIds == {RSAKey2048, RSAKey3072, RSAKey4096, RSAKey8192}

Trimmed == ToLower(TrimSpace(fnArg.s))

\* C14: with t the trimmed, lower-cased input, the empty t parses to "none"
\* without an error, a listed alias parses to the one kind that lists it without
\* an error, every other t is refused with "none" and an error; no alias is
\* listed under two kinds.
C14_CatalogParsing ==
    /\ \A a, b \in EccIds : a # b => ListedEcc(a) \cap ListedEcc(b) = {}
    /\ \A a, b \in RsaIds : a # b => ListedRsa(a) \cap ListedRsa(b) = {}
    /\ fnTrail = <<"ParseECCCurve">> =>
          /\ Trimmed = <<>> => fnVal = [id |-> ECCCurveNone, err |-> ""]
          /\ \A id \in EccIds : Trimmed \in ListedEcc(id) => fnVal = [id |-> id, err |-> ""]
          /\ (Trimmed # <<>> /\ \A id \in EccIds : Trimmed \notin ListedEcc(id))
                => fnVal.id = ECCCurveNone /\ fnVal.err # ""
    /\ fnTrail = <<"ParseRSAKeyID">> =>
          /\ Trimmed = <<>> => fnVal = [id |-> RSAKeyNone, err |-> ""]
          /\ \A id \in RsaIds : Trimmed \in ListedRsa(id) => fnVal = [id |-> id, err |-> ""]
          /\ (Trimmed # <<>> /\ \A id \in RsaIds : Trimmed \notin ListedRsa(id))
                => fnVal.id = RSAKeyNone /\ fnVal.err # ""

\* An upper-case alias with white space around it has been parsed to its kind.
C14_Witness ==
    /\ fnTrail = <<"ParseECCCurve">>
    /\ fnArg.s = <<32>> \o ToUpper(<<115, 101, 99, 112, 53, 50, 49, 114, 49>>) \o <<9, 10>>
    /\ fnVal = [id |-> ECCCurveP521, err |-> ""]

---------------------------------------------------------------------------
(* Cancellation *)

\* The context of run r is cancelled (main: a signal reaches NotifyContext).
\* It may happen before the call, between two of its steps, or after it.
Cancel(r) ==
    /\ pc[r] # "off"
    /\ ~ctx[r]
    /\ ctx' = [ctx EXCEPT ![r] = TRUE]
    /\ UNCHANGED <<osEntropy, pc, call, kdfPos, reads, work, key, hkdfOut, fnVars>>

NextCancel == NextSolo \/ Cancel(1)

SpecCancel == InitSolo /\ [][NextCancel]_vars

\* C15: a step that a run takes while its context is cancelled returns no
\* key, and if the step is a sampler's (a read of the byte source or a round of
\* the prime search) it ends the run with an error.
C15_CancelledFails ==
    [][\A r \in RunIds :
          (ctx[r] /\ pc'[r] # pc[r]) =>
              /\ key'[r].key = NoKey
              /\ pc[r] # "idle" => pc'[r] = "done" /\ key'[r].err # ""]_vars

---------------------------------------------------------------------------
(* Key.Encrypt and Key.Decrypt *)

\* pkcs8.MarshalPrivateKey(priv, password, opts) of github.com/youmark/pkcs8:
\* without a password (nil or of length 0) it is x509.MarshalPKCS8PrivateKey,
\* as Decrypt relies on; with one, the PBES2 EncryptedPrivateKeyInfo of that
\* encoding under a fresh salt and IV (nonce).
pkcs8MarshalPrivateKey(priv, password, nonce) ==
    IF Len(password) = 0
    THEN MarshalPKCS8PrivateKey(priv)
    ELSE [encryptionAlgorithm |-> [scheme |-> "PBES2", nonce |-> nonce],
          encryptedData |-> [password |-> password, nonce |-> nonce,
                             plain |-> MarshalPKCS8PrivateKey(priv)]]

IsEncryptedInfo(der) == "encryptedData" \in DOMAIN der

\* pkcs8.ParsePKCS8PrivateKey(der, password): without a password the DER is
\* parsed as a plain PrivateKeyInfo; with one, as an EncryptedPrivateKeyInfo
\* that only the password it was made with opens.
pkcs8ParsePKCS8PrivateKey(der, password) ==
    IF Len(password) = 0
    THEN IF IsEncryptedInfo(der)
         THEN [key |-> NoKey, err |-> "x509: failed to parse private key"]
         ELSE [key |-> der.privateKey, err |-> ""]
    ELSE IF ~IsEncryptedInfo(der)
         THEN [key |-> NoKey, err |-> "pkcs8: only PKCS #5 v2.0 supported"]
         ELSE IF der.encryptedData.password # password
         THEN [key |-> NoKey, err |-> "pkcs8: incorrect password"]
         ELSE [key |-> der.encryptedData.plain.privateKey, err |-> ""]

\* The keys the methods are called on: a Key as GenerateKeyFromMnemonic
\* returns it, one per kind of private key.
SamplePrivateKeys ==
    {EcdsaPrivateKey(ECCCurveP256, 1), EcdsaPrivateKey(ECCCurveP384, 2),
     EcdsaPrivateKey(ECCCurveP521, 65520),
     Ed25519PrivateKey(Buf(Ed25519SeedSize, {<<Ed25519SeedSize, 7>>})),
     RsaPrivateKey(Buf(2, {<<1, 128>>, <<2, 3>>}), Buf(2, {<<1, 128>>, <<2, 9>>}))}

NewKey(privKey) ==
    [encrypted  |-> FALSE,
     keyType    |-> IF privKey.type = "rsa" THEN KeyTypeRSA ELSE KeyTypeECC,
     PrivateKey |-> privKey,
     Der        |-> MarshalPKCS8PrivateKey(privKey)]

Passwords == {<<>>, <<112>>, <<113>>}

MaxKeyCalls == 4

InitKey ==
    /\ \E privKey \in SamplePrivateKeys : fnArg = NewKey(privKey)
    /\ fnVal = fnArg
    /\ fnTrail = <<>>
    /\ PipeIdle

\* One call of a method on the key: the key becomes after, the call is logged.
Called(op, password, err, after) ==
    /\ Len(fnTrail) < MaxKeyCalls
    /\ fnVal' = after
    /\ fnTrail' = Append(fnTrail, [op |-> op, password |-> password, err |-> err,
                                   before |-> fnVal, after |-> after])
    /\ UNCHANGED <<fnArg, pc, call, kdfPos, reads, work, key, ctx, hkdfOut>>

\* An Encrypt that wraps the key again before it refuses an encrypted key.
EncryptOver(password) ==
    /\ osEntropy' = osEntropy + 1
    /\ Called("Encrypt", password,
              IF fnVal.encrypted THEN "key is already encrypted" ELSE "",
              [fnVal EXCEPT !.Der = pkcs8MarshalPrivateKey(fnVal.PrivateKey, password,
                                                           osEntropy + 1),
                            !.encrypted = TRUE])

\* Key.Encrypt(password)
Encrypt(password) ==
    IF fnVal.encrypted
    THEN Called("Encrypt", password, "key is already encrypted", fnVal) /\ UNCHANGED osEntropy
    ELSE /\ osEntropy' = osEntropy + 1
         /\ Called("Encrypt", password, "",
                   [fnVal EXCEPT !.Der = pkcs8MarshalPrivateKey(fnVal.PrivateKey, password,
                                                                osEntropy + 1),
                                 !.encrypted = TRUE])

\* A Decrypt that leaves Der as it is.
DecryptKeepDer(password) ==
    /\ UNCHANGED osEntropy
    /\ IF ~fnVal.encrypted
       THEN Called("Decrypt", password, "key is not encrypted", fnVal)
       ELSE \E parsed \in {pkcs8ParsePKCS8PrivateKey(fnVal.Der, password)} :
              IF parsed.err # ""
              THEN Called("Decrypt", password, "failed to decrypt private key", fnVal)
              ELSE Called("Decrypt", password, "", [fnVal EXCEPT !.encrypted = FALSE])

\* Key.Decrypt(password)
Decrypt(password) ==
    /\ UNCHANGED osEntropy
    /\ IF ~fnVal.encrypted
       THEN Called("Decrypt", password, "key is not encrypted", fnVal)
       ELSE \E parsed \in {pkcs8ParsePKCS8PrivateKey(fnVal.Der, password)} :
              IF parsed.err # ""
              THEN Called("Decrypt", password, "failed to decrypt private key", fnVal)
              ELSE IF parsed.key.type # fnVal.PrivateKey.type
              THEN Called("Decrypt", password,
                          "decrypted key type does not match original key type", fnVal)
              ELSE IF parsed.key # fnVal.PrivateKey
              THEN Called("Decrypt", password,
                          "decrypted key does not match original key", fnVal)
              ELSE Called("Decrypt", password, "",
                          [fnVal EXCEPT !.Der = pkcs8MarshalPrivateKey(parsed.key, <<>>, 0),
                                        !.encrypted = FALSE])

NextKey == \E password \in Passwords : Encrypt(password) \/ Decrypt(password)

SpecKey == InitKey /\ [][NextKey]_vars

\* A successful Encrypt at place i of the log, followed at once by a Decrypt
\* with the same password.
EncryptDecryptAt(i) ==
    /\ i + 1 <= Len(fnTrail)
    /\ fnTrail[i].op = "Encrypt" /\ fnTrail[i].err = ""
    /\ fnTrail[i + 1].op = "Decrypt"
    /\ fnTrail[i + 1].password = fnTrail[i].password

\* C16: Encrypt(P) followed by Decrypt(P) succeeds and leaves the key
\* unencrypted, with the DER and the fingerprint it had before Encrypt; this
\* holds for every such pair of calls on the key, the first and the later ones.
C16_EncryptionNeutral ==
    \A i \in 1..Len(fnTrail) :
        EncryptDecryptAt(i) =>
            /\ fnTrail[i + 1].err = ""
            /\ ~fnTrail[i + 1].after.encrypted
            /\ fnTrail[i + 1].after.Der = fnTrail[i].before.Der
            /\ Fingerprint(fnTrail[i + 1].after) = Fingerprint(fnTrail[i].before)

\* Two pairs in a row with different non-empty passwords, both undone.
C16_Witness ==
    /\ Len(fnTrail) = 4
    /\ EncryptDecryptAt(1) /\ EncryptDecryptAt(3)
    /\ fnTrail[1].password = <<112>> /\ fnTrail[3].password = <<113>>
    /\ IsEncryptedInfo(fnTrail[3].after.Der)
    /\ fnVal = fnArg

\* C17: the label of PEM() is ENCRYPTED PRIVATE KEY exactly when Der holds the
\* password-wrapped encoding, and PRIVATE KEY exactly when Der holds the plain
\* PKCS#8 encoding of the key; a fresh key is plain.
C17_LabelMatchesDer ==
    /\ PEM(fnVal).Type = "ENCRYPTED PRIVATE KEY" <=> IsEncryptedInfo(fnVal.Der)
    /\ PEM(fnVal).Type = "PRIVATE KEY" <=> fnVal.Der = MarshalPKCS8PrivateKey(fnVal.PrivateKey)
    /\ fnTrail = <<>> => PEM(fnVal).Type = "PRIVATE KEY"

---------------------------------------------------------------------------
(* The BIP-39 checksum *)

WordIndexOf(w) == (CHOOSE i \in 1..Len(bip39Words) : bip39Words[i] = w) - 1

\* The checksum rule of BIP-39 on the stand-in wordlist: the low bit of the
\* last word's index is a digest of all the bits before it (in BIP-39 proper:
\* the low 8 bits of the last index are the first byte of the SHA-256 of the
\* 256 bits before them).
ChecksumValid(m) ==
    LET idx == [i \in 1..MNEMONIC_WORD_COUNT |-> WordIndexOf(m[i])]
        entropy == [i \in 1..MNEMONIC_WORD_COUNT |->
                       IF i < MNEMONIC_WORD_COUNT THEN idx[i] ELSE idx[i] \div 2]
    IN  idx[MNEMONIC_WORD_COUNT] % 2 = Digest(entropy) % 2

\* C18: the parser accepts no input whose words fail the BIP-39 checksum: when
\* ParseMnemonic returns a mnemonic (every token resolved, prefixes expanded to
\* the canonical words), the checksum of that mnemonic is valid.
C18_BadChecksumRefused ==
    (/\ fnTrail # <<>>
     /\ fnTrail[Len(fnTrail)] = "ParseMnemonic"
     /\ fnVal.kind = "mnemonic")
        => ChecksumValid(fnVal.m)

---------------------------------------------------------------------------
(* Derivations side by side *)

\* What a call with the arguments c does when it runs alone, as a function of
\* c and of the HKDF output out only.  AloneEnter: the call up to its sampler,
\* with the canonical mnemonic and the key of its own reader.
AloneEnter(c) ==
    LET to == Dispatch(c.keyType, c.keyId)
    IN  CHOOSE e \in
            {IF norm.err # ""
             THEN [pc |-> "done", err |-> "failed to normalize mnemonic", w |-> NoWork]
             ELSE [pc  |-> IF to \in Samplers THEN to ELSE "done",
                   err |-> IF to \in Samplers THEN "pending" ELSE to,
                   w   |-> [state |-> "derive", mnemonic |-> norm.m,
                            kdf |-> HkdfNew(NewSeed(String(norm.m), c.salt), c.salt),
                            p |-> NoInt, q |-> NoInt]] :
                norm \in {Normalize(c.mnemonic)}} : TRUE

\* The output of the reader with key prk in out.
AloneStream(prk, out) == IF prk \in DOMAIN out THEN out[prk] ELSE Buf(0, {})

\* The j-th block of n bytes of the stream st.
AloneRead(st, j, n) == Block(st, (j - 1) * n, n)

AloneHalf(c) == getSizeRSA(c.keyId) \div 2

\* The primes of the blocks 1..MaxReads of st, as pairs <<j, prime>>.
AlonePrimes(c, st) ==
    {<<j, derivePrime(AloneRead(st, j, (AloneHalf(c) + 7) \div 8), AloneHalf(c))>> :
        j \in 1..MaxReads}

PrimeAt(primes, j) == (CHOOSE pr \in primes : pr[1] = j)[2]

\* generateRSA on these primes: p is the first, q the first one after it that
\* differs from p.
AloneRsa(primes) ==
    LET p == PrimeAt(primes, 1)
        j == CHOOSE x \in 2..MaxReads :
                 /\ PrimeAt(primes, x) # p
                 /\ \A y \in 2..(x - 1) : PrimeAt(primes, y) = p
        q == PrimeAt(primes, j)
    IN  IF HasInverse(p, q) THEN RsaPrivateKey(p, q) ELSE NoKey

AlonePrivateKey(c, st) ==
    LET to == Dispatch(c.keyType, c.keyId)
    IN  CASE to = "generateNistECC" ->
               LET params == CurveParams(c.keyId)
               IN  EcdsaPrivateKey(c.keyId,
                       generateScalarWide(AloneRead(st, 1, (params.BitLen + 128 + 7) \div 8),
                                          params.N))
          [] to = "generateEdECC" -> Ed25519PrivateKey(AloneRead(st, 1, Ed25519SeedSize))
          [] to = "derivePrime p" ->
               CHOOSE k \in {AloneRsa(primes) : primes \in {AlonePrimes(c, st)}} : TRUE

AloneKey(c, m, privKey) ==
    IF privKey = NoKey
    THEN [err |-> "failed to generate ECC key", key |-> NoKey]
    ELSE [err |-> "",
          key |-> [encrypted  |-> FALSE,
                   keyType    |-> c.keyType,
                   keyId      |-> c.keyId,
                   salt       |-> c.salt,
                   PrivateKey |-> privKey,
                   Der        |-> MarshalPKCS8PrivateKey(privKey),
                   mnemonic   |-> m]]

\* The result of the samplers of a call that entered with e, on the output out.
AloneResult(c, e, out) ==
    CHOOSE res \in {AloneKey(c, e.mnemonic, privKey) :
                       privKey \in {AlonePrivateKey(c, st) : st \in {AloneStream(e.kdf, out)}}} :
        TRUE

\* A run in the loop of generateRSA after n reads, with reader position pos
\* and locals w: the primes are those of its own reader's first and latest
\* block, and it has consumed its own reads only.
AloneInLoop(c, out, n, pos, w) ==
    /\ pos = n * ((AloneHalf(c) + 7) \div 8)
    /\ \A primes \in {AlonePrimes(c, AloneStream(w.kdf, out))} :
          /\ w.p = PrimeAt(primes, 1)
          /\ w.q = PrimeAt(primes, n)

\* Run r takes the step at hand.
Stepped(r) == pc'[r] # pc[r] \/ reads'[r] # reads[r]

\* C19: in every interleaving of two calls, a step of one call changes nothing
\* of the other call (arguments, reader position, sampler state, result); a
\* call enters its sampler with the mnemonic and the reader that its arguments
\* alone determine, keeps them, and returns the key it returns when run alone;
\* a call in the loop of generateRSA is where it would be alone after as many
\* reads.
C19_ParallelIndependent ==
    [][\A r \in RunIds :
          /\ ~Stepped(r) =>
                /\ call'[r] = call[r] /\ kdfPos'[r] = kdfPos[r]
                /\ work'[r] = work[r] /\ key'[r] = key[r]
          /\ (Stepped(r) /\ pc[r] = "idle") =>
                \A e \in {AloneEnter(call'[r])} :
                    /\ pc'[r] = e.pc /\ key'[r] = [err |-> e.err, key |-> NoKey]
                    /\ work'[r] = e.w /\ kdfPos'[r] = 0 /\ reads'[r] = <<>>
          /\ (Stepped(r) /\ pc[r] # "idle") =>
                /\ call'[r] = call[r]
                /\ work'[r].kdf = work[r].kdf /\ work'[r].mnemonic = work[r].mnemonic
                /\ pc'[r] = "done" => key'[r] = AloneResult(call'[r], work'[r], hkdfOut')
                /\ pc'[r] = "derivePrime q" =>
                      AloneInLoop(call'[r], hkdfOut', Len(reads'[r]), kdfPos'[r], work'[r])]_vars

\* Two RSA derivations on readers with the same key: the first has returned
\* its key while the second has read less and is still in the loop.
C19_Witness ==
    /\ pc[2] = "derivePrime q"
    /\ work[1].state = "derive" /\ work[1].kdf = work[2].kdf
    /\ call[1].keyType = KeyTypeRSA
    /\ kdfPos[1] > kdfPos[2] /\ kdfPos[2] > 0
    /\ Succeeded(1)

---------------------------------------------------------------------------
(* The reads of the samplers *)

IsRsaCall(c) == c.op # "none" /\ Dispatch(c.keyType, c.keyId) = "derivePrime p"

\* C21: the reads of generateRSA are one read of byteLen = (S/2 + 7)/8 bytes
\* for p, then one read of byteLen bytes for each sampling of q: a first one,
\* and one more only while q = p.  Each is a single read by derivePrime; a step
\* that reads appends exactly one entry, and the search for the prime reads
\* nothing.  A key is returned after at least two reads.
C21_RsaReadTrace ==
    [][\A r \in RunIds :
          IsRsaCall(call'[r]) =>
              LET byteLen == ((getSizeRSA(call'[r].keyId) \div 2) + 7) \div 8
                  n       == Len(reads[r])
              IN  /\ \/ reads'[r] = reads[r]
                     \/ /\ Len(reads'[r]) = n + 1
                        /\ SubSeq(reads'[r], 1, n) = reads[r]
                        /\ reads'[r][n + 1].n = byteLen
                        /\ reads'[r][n + 1].by = "derivePrime"
                        /\ kdfPos'[r] = kdfPos[r] + (IF reads'[r][n + 1].err = "" THEN byteLen ELSE 0)
                        /\ \/ pc[r] = "derivePrime p" /\ n = 0
                           \/ pc[r] = "derivePrime q" /\ n >= 1 /\ work[r].p = work[r].q
                  /\ pc'[r] = "derivePrime q" => Len(reads'[r]) >= 1
                  /\ (pc'[r] = "done" /\ key'[r].err = "") =>
                        (Len(reads'[r]) >= 2 /\ kdfPos'[r] = Len(reads'[r]) * byteLen)]_vars

\* An RSA-3072 key was returned after q came out equal to p once: three reads
\* of 192 bytes.
C21_Witness ==
    /\ Succeeded(1)
    /\ call[1].keyType = KeyTypeRSA /\ call[1].keyId = RSAKey3072
    /\ Len(reads[1]) = 3
    /\ \A i \in 1..3 : reads[1][i].n = 192 /\ reads[1][i].by = "derivePrime"
    /\ kdfPos[1] = 576

\* The size of the one read of an ECC derivation, as documented.
EccReadSize(id) ==
    CASE id = ECCCurveP256 -> 48
      [] id = ECCCurveP384 -> 64
      [] id = ECCCurveP521 -> 82
      [] id = ECCCurveEd25519 -> 32

IsEccCall(c) ==
    c.op # "none" /\ Dispatch(c.keyType, c.keyId) \in {"generateNistECC", "generateEdECC"}

\* C22: an ECC derivation reads its byte source once and contiguously from the
\* start: nothing before the sampler runs, and after it exactly one read, of
\* 48 (P-256), 64 (P-384), 82 (P-521) or 32 (Ed25519) bytes, which leaves the
\* reader at that many bytes.
C22_EccReadTrace ==
    \A r \in RunIds :
        IsEccCall(call[r]) =>
            /\ pc[r] # "done" => reads[r] = <<>> /\ kdfPos[r] = 0
            /\ (pc[r] = "done" /\ Normalize(call[r].mnemonic).err = "") =>
                  /\ Len(reads[r]) = 1
                  /\ reads[r][1].n = EccReadSize(call[r].keyId)
                  /\ reads[r][1].err = ""
                  /\ kdfPos[r] = EccReadSize(call[r].keyId)
                  /\ key[r].err = ""

\* A P-521 key was returned after one read of 82 bytes.
C22_Witness ==
    /\ Succeeded(1)
    /\ call[1].keyType = KeyTypeECC /\ call[1].keyId = ECCCurveP521
    /\ reads[1] = <<[reader |-> "hkdf", by |-> "generateScalarWide", n |-> 82, err |-> ""]>>
    /\ kdfPos[1] = 82

---------------------------------------------------------------------------
(* StreamChaCha20, the ChaCha20 byte stream *)

\* Bytes are kept by where they come from: [from |-> a, len |-> n] stands for
\* the bytes a+1 .. a+n of the underlying reader or of the keystream.

KeySize    == 32     \* chacha20.KeySize
NonceSizeX == 24     \* chacha20.NonceSizeX
ZbufLen    == 4096   \* len(s.zbuf)

NoStream == [none |-> TRUE]

\* io.ReadFull(r, buf) with len(buf) = n on a reader that has avail bytes left:
\* the reads issued so far and the bytes consumed are kept in u.
ioReadFull(u, n) ==
    LET left == u.avail - u.used
        got  == IF left >= n THEN n ELSE left
    IN  [err   |-> IF left >= n THEN "" ELSE IF left = 0 THEN "EOF" ELSE "unexpected EOF",
         bytes |-> [from |-> u.used, len |-> got],
         u     |-> [avail |-> u.avail, used |-> u.used + got, reads |-> Append(u.reads, n)]]

\* chacha20.NewUnauthenticatedCipher(key, nonce)
NewUnauthenticatedCipher(keyBytes, nonce) ==
    IF keyBytes.len # 32 THEN [err |-> "chacha20: wrong key size", stream |-> NoStream]
    ELSE IF nonce.len \notin {12, 24}
    THEN [err |-> "chacha20: wrong nonce size", stream |-> NoStream]
    ELSE [err |-> "", stream |-> [key |-> keyBytes, nonce |-> nonce, pos |-> 0]]

\* A NewStreamChaCha20 that reads the nonce before the key.
NewStreamNonceFirst(u) ==
    LET n == ioReadFull(u, NonceSizeX)
        k == ioReadFull(n.u, KeySize)
    IN  IF n.err # "" THEN [err |-> n.err, stream |-> NoStream, under |-> n.u]
        ELSE IF k.err # "" THEN [err |-> k.err, stream |-> NoStream, under |-> k.u]
        ELSE [err    |-> NewUnauthenticatedCipher(k.bytes, n.bytes).err,
              stream |-> NewUnauthenticatedCipher(k.bytes, n.bytes).stream,
              under  |-> k.u]

\* NewStreamChaCha20(r)
NewStreamChaCha20(u) ==
    LET k == ioReadFull(u, KeySize)
        n == ioReadFull(k.u, NonceSizeX)
    IN  IF k.err # "" THEN [err |-> k.err, stream |-> NoStream, under |-> k.u]
        ELSE IF n.err # "" THEN [err |-> n.err, stream |-> NoStream, under |-> n.u]
        ELSE [err    |-> NewUnauthenticatedCipher(k.bytes, n.bytes).err,
              stream |-> NewUnauthenticatedCipher(k.bytes, n.bytes).stream,
              under  |-> n.u]

\* A loop in which every XORKeyStream starts from the same keystream position.
RECURSIVE ReadLoopSamePos(_, _, _)
ReadLoopSamePos(pos, off, n) ==
    IF n > 0
    THEN LET chunkSize == IF n > ZbufLen THEN ZbufLen ELSE n
         IN  <<[off |-> off, from |-> pos, len |-> chunkSize]>>
                 \o ReadLoopSamePos(pos, off + chunkSize, n - chunkSize)
    ELSE <<>>

\* The loop of Read: the chunks written, each XORKeyStream(dst[:chunkSize],
\* zbuf[:chunkSize]) putting the next chunkSize keystream bytes at offset off
\* of the caller's buffer.
RECURSIVE ReadLoop(_, _, _)
ReadLoop(pos, off, n) ==
    IF n > 0
    THEN LET chunkSize == IF n > ZbufLen THEN ZbufLen ELSE n
         IN  <<[off |-> off, from |-> pos, len |-> chunkSize]>>
                 \o ReadLoop(pos + chunkSize, off + chunkSize, n - chunkSize)
    ELSE <<>>

\* The keystream position after the chunks.
PosAfter(pos, chunks) ==
    IF chunks = <<>> THEN pos ELSE chunks[Len(chunks)].from + chunks[Len(chunks)].len

\* A Read that serves a request of one byte like any other.
ReadEveryByte(st, totalSize) ==
    IF totalSize = 0 THEN [ret |-> 0, err |-> "", chunks |-> <<>>, pos |-> st.pos]
    ELSE [ret |-> totalSize, err |-> "",
          chunks |-> ReadLoop(st.pos, 0, totalSize),
          pos |-> PosAfter(st.pos, ReadLoop(st.pos, 0, totalSize))]

\* A Read without the loop: one XORKeyStream of at most a zero buffer.
ReadFirstChunk(st, totalSize) ==
    IF totalSize = 0 THEN [ret |-> 0, err |-> "", chunks |-> <<>>, pos |-> st.pos]
    ELSE IF totalSize = 1 THEN [ret |-> 1, err |-> "", chunks |-> <<>>, pos |-> st.pos]
    ELSE LET chunkSize == IF totalSize > ZbufLen THEN ZbufLen ELSE totalSize
         IN  [ret |-> totalSize, err |-> "",
              chunks |-> <<[off |-> 0, from |-> st.pos, len |-> chunkSize]>>,
              pos |-> st.pos + chunkSize]

\* StreamChaCha20.Read(dst) with len(dst) = totalSize
Read(st, totalSize) ==
    IF totalSize = 0 THEN [ret |-> 0, err |-> "", chunks |-> <<>>, pos |-> st.pos]
    ELSE IF totalSize = 1 THEN [ret |-> 1, err |-> "", chunks |-> <<>>, pos |-> st.pos]
    ELSE [ret |-> totalSize, err |-> "",
          chunks |-> ReadLoop(st.pos, 0, totalSize),
          pos |-> PosAfter(st.pos, ReadLoop(st.pos, 0, totalSize))]

\* Bytes the underlying reader may have left, and the sizes of the requests.
ReaderAvail == {0, 31, 32, 55, 56, 57, 8160}
ReadSizes   == {0, 1, 2, 32, 4095, 4096, 4097, 8193}

MaxDrbgReads == 3

InitDrbg ==
    /\ \E avail \in ReaderAvail :
          fnArg = [kind |-> "reader", avail |-> avail, used |-> 0, reads |-> <<>>]
    /\ fnVal = NoArg
    /\ fnTrail = <<>>
    /\ PipeIdle

CallNewStreamChaCha20 ==
    /\ fnVal = NoArg
    /\ fnArg.kind = "reader"
    /\ \E res \in {NewStreamChaCha20([avail |-> fnArg.avail, used |-> fnArg.used,
                                       reads |-> fnArg.reads])} :
          fnVal' = [kind |-> "drbg", err |-> res.err, stream |-> res.stream,
                    under |-> res.under]
    /\ UNCHANGED <<fnArg, fnTrail, pipeVars>>

CallRead ==
    /\ fnVal.kind = "drbg"
    /\ fnVal.stream # NoStream
    /\ Len(fnTrail) < MaxDrbgReads
    /\ \E n \in ReadSizes :
          \E res \in {Read(fnVal.stream, n)} :
              /\ fnVal' = [fnVal EXCEPT !.stream.pos = res.pos]
              /\ fnTrail' = Append(fnTrail, [op |-> "Read", n |-> n, ret |-> res.ret,
                                             err |-> res.err, chunks |-> res.chunks,
                                             before |-> fnVal.stream.pos,
                                             after |-> res.pos])
    /\ UNCHANGED <<fnArg, pipeVars>>

NextDrbg == CallNewStreamChaCha20 \/ CallRead

SpecDrbg == InitDrbg /\ [][NextDrbg]_vars

\* C23: NewStreamChaCha20 reads 32 bytes and then 24 bytes from the underlying
\* reader; on success the key is the first 32 and the nonce the next 24 bytes
\* of that reader, 56 bytes are consumed, and no Read consumes more; when a read
\* fails it returns an error and no stream, and it never returns both.
C23_DrbgInit ==
    fnVal.kind = "drbg" =>
        /\ fnVal.err = "" <=> fnVal.stream # NoStream
        /\ fnVal.err = "" <=> fnArg.avail >= 56
        /\ fnVal.err = "" =>
              /\ fnVal.under.reads = <<32, 24>>
              /\ fnVal.stream.key = [from |-> 0, len |-> 32]
              /\ fnVal.stream.nonce = [from |-> 32, len |-> 24]
              /\ fnVal.under.used = 56
        /\ fnVal.err # "" =>
              /\ fnVal.under.reads = IF fnArg.avail < 32 THEN <<32>> ELSE <<32, 24>>
              /\ fnVal.under.used = fnArg.avail

\* A stream was set up from a reader with bytes to spare and has served reads.
C23_Witness ==
    /\ fnVal.kind = "drbg" /\ fnVal.err = ""
    /\ fnArg.avail = 57
    /\ Len(fnTrail) = 3
    /\ fnVal.under.used = 56

\* The read log without its one-byte requests.
DropOneByte(log) == SelectSeq(log, LAMBDA e : e.n # 1)

\* The chunks written when the sizes are served one after the other from
\* keystream position pos.
RECURSIVE Replay(_, _)
Replay(pos, sizes) ==
    IF sizes = <<>> THEN <<>>
    ELSE LET res == Read([pos |-> pos], Head(sizes))
         IN  <<res.chunks>> \o Replay(res.pos, Tail(sizes))

SizesOf(log) == [i \in 1..Len(log) |-> log[i].n]
ChunksOf(log) == [i \in 1..Len(log) |-> log[i].chunks]

\* C24: a Read of exactly one byte returns (1, nil) and leaves the cipher state
\* where it was, and the bytes produced by the other reads are those the same
\* reads produce when the one-byte reads are left out of the sequence.
C24_OneByteQuirk ==
    fnVal.kind = "drbg" =>
        /\ \A j \in 1..Len(fnTrail) :
              fnTrail[j].n = 1 =>
                  /\ fnTrail[j].ret = 1 /\ fnTrail[j].err = ""
                  /\ fnTrail[j].after = fnTrail[j].before
        /\ ChunksOf(DropOneByte(fnTrail)) = Replay(0, SizesOf(DropOneByte(fnTrail)))

\* A one-byte read sits between two reads that produce bytes.
C24_Witness ==
    /\ fnVal.kind = "drbg"
    /\ SizesOf(fnTrail) = <<2, 1, 4097>>
    /\ fnTrail[3].chunks = <<[off |-> 0, from |-> 2, len |-> 4096],
                             [off |-> 4096, from |-> 4098, len |-> 1]>>

RECURSIVE SumSizes(_, _)
SumSizes(log, j) == IF j = 0 THEN 0 ELSE log[j].n + SumSizes(log, j - 1)

\* The chunks hold the keystream bytes start+1 .. start+n, in order and
\* without a gap.
KeystreamRun(chunks, start, n) ==
    /\ chunks = <<>> <=> n = 0
    /\ chunks # <<>> =>
          /\ chunks[1].from = start
          /\ \A k \in 1..(Len(chunks) - 1) :
                chunks[k + 1].from = chunks[k].from + chunks[k].len
          /\ chunks[Len(chunks)].from + chunks[Len(chunks)].len = start + n

\* C25: in a sequence of reads none of which has size 1, every read advances the
\* keystream by its size, so the outputs put end to end are the first
\* sum-of-sizes keystream bytes whatever the split into reads.
C25_StreamPosition ==
    (fnVal.kind = "drbg" /\ \A j \in 1..Len(fnTrail) : fnTrail[j].n # 1) =>
        /\ \A j \in 1..Len(fnTrail) :
              /\ fnTrail[j].before = SumSizes(fnTrail, j - 1)
              /\ fnTrail[j].after = fnTrail[j].before + fnTrail[j].n
              /\ KeystreamRun(fnTrail[j].chunks, SumSizes(fnTrail, j - 1), fnTrail[j].n)
        /\ fnVal.stream # NoStream => fnVal.stream.pos = SumSizes(fnTrail, Len(fnTrail))

\* A read larger than the zero buffer, an empty read and one of two buffers and
\* a byte have brought the keystream to 4097 + 0 + 8193.
C25_Witness ==
    /\ fnVal.kind = "drbg"
    /\ SizesOf(fnTrail) = <<4097, 0, 8193>>
    /\ Len(fnTrail[3].chunks) = 3
    /\ fnVal.stream.pos = 12290

\* The chunks fill the first n bytes of the caller's buffer, in order and
\* without a gap.
Filled(chunks, n) ==
    /\ chunks = <<>> <=> n = 0
    /\ chunks # <<>> =>
          /\ chunks[1].off = 0
          /\ \A k \in 1..(Len(chunks) - 1) :
                chunks[k + 1].off = chunks[k].off + chunks[k].len
          /\ chunks[Len(chunks)].off + chunks[Len(chunks)].len = n

\* C26 as stated: every Read returns its request size without error and has
\* written that many bytes into the caller's buffer.
C26_FillsWhatItReports ==
    \A j \in 1..Len(fnTrail) :
        fnTrail[j].op = "Read" =>
            /\ fnTrail[j].err = ""
            /\ fnTrail[j].ret = fnTrail[j].n
            /\ Filled(fnTrail[j].chunks, fnTrail[j].ret)

\* C26: every Read returns its request size without error; when the size is not
\* 1 it has written that many bytes into the caller's buffer, and when the size
\* is 1 it has written nothing.
C26_FillsUnlessOneByte ==
    \A j \in 1..Len(fnTrail) :
        fnTrail[j].op = "Read" =>
            /\ fnTrail[j].err = ""
            /\ fnTrail[j].ret = fnTrail[j].n
            /\ Filled(fnTrail[j].chunks, IF fnTrail[j].n = 1 THEN 0 ELSE fnTrail[j].ret)

\* A one-byte read that wrote nothing next to a read served in three chunks.
C26_Witness ==
    /\ fnVal.kind = "drbg"
    /\ Len(fnTrail) = 2
    /\ fnTrail[1].n = 1 /\ fnTrail[1].ret = 1 /\ fnTrail[1].chunks = <<>>
    /\ fnTrail[2].n = 8193 /\ Len(fnTrail[2].chunks) = 3

\* The first candidate of derivePrime for a block: the block with the top bit
\* of its first byte and the lowest bit of its last byte set.
FirstCandidate(buf) ==
    Buf(buf.len,
        {p \in buf.nz : p[1] \notin {1, buf.len}}
            \cup {<<1, OrHighBit(ByteAt(buf, 1))>>,
                  <<buf.len, OrLowBit(ByteAt(buf, buf.len))>>})

\* k0 + 2 * i as a big.Int
RECURSIVE Candidate(_, _)
Candidate(k0, i) ==
    IF i = 0 THEN k0
    ELSE CHOOSE v \in {AddAt(c, c.len, 2) : c \in {Candidate(k0, i - 1)}} : TRUE

\* The number of candidates looked at on the property side.
SearchSpan == 40

\* C27: derivePrime returns k0 + 2j for the least j >= 0 such that k0 + 2j passes
\* the test with PRIMALITY_TESTS rounds, k0 being the block read with its top
\* and lowest bit set: every candidate k0, k0 + 2, ... before it fails the test.
C27_SmallestPassingCandidate ==
    (fnTrail = <<"derivePrime">>) =>
        \E j \in 0..SearchSpan :
            /\ fnVal.k = Candidate(FirstCandidate(fnArg.buf), j)
            /\ ProbablyPrime(fnVal.k, PRIMALITY_TESTS)
            /\ IsOdd(fnVal.k)
            /\ \A i \in 0..(j - 1) :
                  ~ProbablyPrime(Candidate(FirstCandidate(fnArg.buf), i), PRIMALITY_TESTS)

\* The block ...FF FD with first byte 0: the candidates ending FFFD, FFFF and,
\* after the carry into the first byte, 0001 fail, and the one ending 0003 is
\* returned.
C27_Witness ==
    /\ fnTrail = <<"derivePrime">>
    /\ fnArg.bits = 1024
    /\ ByteAt(fnArg.buf, 1) = 0
    /\ ByteAt(fnArg.buf, 2) = 255
    /\ LowWord(fnArg.buf) = 65533
    /\ ByteAt(fnVal.k, 1) = 129
    /\ LowWord(fnVal.k) = 3
    /\ fnVal.k = Candidate(FirstCandidate(fnArg.buf), 3)

\* The kinds of the catalog.
InCatalog(keyType, keyId) ==
    \/ keyType = KeyTypeECC
          /\ keyId \in {ECCCurveP256, ECCCurveP384, ECCCurveP521, ECCCurveEd25519}
    \/ keyType = KeyTypeRSA
          /\ keyId \in {RSAKey2048, RSAKey3072, RSAKey4096, RSAKey8192}

HasUnknownWord(m) == \E i \in 1..MNEMONIC_WORD_COUNT : GetWordIndex(m[i]).err # ""

FailedReads(r) == {i \in 1..Len(reads[r]) : reads[r][i].err # ""}

\* C28: a finished call has a key and no error or an error and no key; it has
\* failed when the mnemonic holds an unknown word, when the kind is not in the
\* catalog (a keyType other than ECC and RSA, a keyId of None or beyond the
\* list), or when a read of a sampler failed; a failed read is the last read of
\* the call, and a call for a kind outside the catalog never reads.
C28_NoRecovery ==
    \A r \in {1} :
        /\ Done(r) =>
              \/ key[r].err = "" /\ key[r].key # NoKey
              \/ key[r].err # "" /\ key[r].key = NoKey
        /\ ~Done(r) => key[r].key = NoKey
        /\ (Done(r) /\ HasUnknownWord(call[r].mnemonic)) => key[r].err # ""
        /\ (Done(r) /\ ~InCatalog(call[r].keyType, call[r].keyId)) => key[r].err # ""
        /\ (call[r].op # "none" /\ ~InCatalog(call[r].keyType, call[r].keyId)) =>
              (Done(r) /\ reads[r] = <<>> /\ kdfPos[r] = 0)
        /\ FailedReads(r) # {} =>
              /\ FailedReads(r) = {Len(reads[r])}
              /\ Done(r) /\ key[r].err # ""

\* A call for an RSA key whose reader gave out: the failed read ended it.
C28_Witness ==
    /\ Done(1) /\ key[1].err # "" /\ key[1].key = NoKey
    /\ call[1].keyType = KeyTypeRSA
    /\ FailedReads(1) = {Len(reads[1])}

\* The password of the last successful Encrypt before call i of the log.
LastEncryptBefore(i) ==
    LET done == {j \in 1..(i - 1) : fnTrail[j].op = "Encrypt" /\ fnTrail[j].err = ""}
    IN  fnTrail[CHOOSE j \in done : \A o \in done : o <= j].password

\* Call i of the log is one of the three refused calls.
Refused(i) ==
    \/ fnTrail[i].op = "Encrypt" /\ fnTrail[i].before.encrypted
    \/ fnTrail[i].op = "Decrypt" /\ ~fnTrail[i].before.encrypted
    \/ /\ fnTrail[i].op = "Decrypt" /\ fnTrail[i].before.encrypted
       /\ fnTrail[i].password # LastEncryptBefore(i)

\* C29: Encrypt on an encrypted key, Decrypt on a key that is not encrypted and
\* Decrypt with a password other than the one of the Encrypt return an error
\* and leave encrypted, Der and PrivateKey as they were; and PrivateKey is the
\* key the Key was made with, before and after every call.
C29_FailedCallsChangeNothing ==
    /\ \A i \in 1..Len(fnTrail) :
          /\ Refused(i) =>
                /\ fnTrail[i].err # ""
                /\ fnTrail[i].after.encrypted = fnTrail[i].before.encrypted
                /\ fnTrail[i].after.Der = fnTrail[i].before.Der
                /\ fnTrail[i].after.PrivateKey = fnTrail[i].before.PrivateKey
          /\ fnTrail[i].before.PrivateKey = fnArg.PrivateKey
          /\ fnTrail[i].after.PrivateKey = fnArg.PrivateKey
    /\ fnVal.PrivateKey = fnArg.PrivateKey

\* An encrypted key refused a second Encrypt and a Decrypt with another
\* password, and then opened with its own.
C29_Witness ==
    /\ Len(fnTrail) = 4
    /\ fnTrail[1].op = "Encrypt" /\ fnTrail[1].password = <<112>> /\ fnTrail[1].err = ""
    /\ fnTrail[2].op = "Encrypt" /\ fnTrail[2].password = <<113>>
    /\ fnTrail[2].err = "key is already encrypted"
    /\ fnTrail[3].op = "Decrypt" /\ fnTrail[3].password = <<113>>
    /\ fnTrail[3].err = "failed to decrypt private key"
    /\ fnTrail[3].after = fnTrail[1].after
    /\ fnTrail[4].op = "Decrypt" /\ fnTrail[4].err = ""
    /\ fnVal = fnArg

=============================================================================
